---------------------------- MODULE Spec2Model ----------------------------
(***************************************************************************)
(* lucidoc: the RST docstring parser (lucidoc/docparse.py) and its tag     *)
(* model (lucidoc/doctags.py).                                             *)
(*                                                                         *)
(* Text is modelled by TLA+ strings; Len, \o, SubSeq, Head and Tail act on *)
(* them character by character, so that splitting, stripping and prefix    *)
(* tests are computed as the Python code computes them.                    *)
(*                                                                         *)
(* Python's None / value distinction is kept by an option encoding:        *)
(* None is the empty tuple << >> and a present value v is << v >>.         *)
(***************************************************************************)
EXTENDS Integers, Sequences, FiniteSets

VARIABLES input, last_seen, ret

vars == <<input, last_seen, ret>>

(***************************************************************************)
(* Python built-ins used by the parser                                     *)
(***************************************************************************)

None == << >>

Some(v) == << v >>

\* str.strip()/str.lstrip() without argument remove these characters
Whitespace == {" ", "\t", "\n", "\r", "\f"}

\* s.startswith(prefix)
StartsWith(s, prefix) ==
    Len(s) >= Len(prefix) /\ SubSeq(s, 1, Len(prefix)) = prefix

\* s.endswith(suffix)
EndsWith(s, suffix) ==
    Len(s) >= Len(suffix) /\ SubSeq(s, Len(s) - Len(suffix) + 1, Len(s)) = suffix

\* s.lstrip(chars): drop leading characters that belong to the set chars
RECURSIVE LStripChars(_, _)
LStripChars(s, chars) ==
    IF Len(s) > 0 /\ Head(s) \in chars
    THEN LStripChars(Tail(s), chars)
    ELSE s

\* s.rstrip(chars)
RECURSIVE RStripChars(_, _)
RStripChars(s, chars) ==
    IF Len(s) > 0 /\ SubSeq(s, Len(s), Len(s)) \in chars
    THEN RStripChars(SubSeq(s, 1, Len(s) - 1), chars)
    ELSE s

LStrip(s) == LStripChars(s, Whitespace)

Strip(s) == RStripChars(LStripChars(s, Whitespace), Whitespace)

\* the positions at which the one-character separator sep occurs in s
SepPositions(s, sep) == { i \in 1..Len(s) : SubSeq(s, i, i) = sep }

\* s.split(sep) for a one-character separator: piece k lies between the
\* (k-1)-th and the k-th occurrence of sep (the ends of s standing for the
\* 0-th and the last one), so that n separators give n + 1 pieces
Split(s, sep) ==
    LET P == SepPositions(s, sep)
        n == Cardinality(P)
        at(k) == IF k = 0 THEN 0
                 ELSE IF k = n + 1 THEN Len(s) + 1
                 ELSE CHOOSE i \in P : Cardinality({ j \in P : j < i }) = k - 1
    IN  [k \in 1..(n + 1) |-> SubSeq(s, at(k - 1) + 1, at(k) - 1)]

\* sep.join(parts)
RECURSIVE Join(_, _)
Join(parts, sep) ==
    IF Len(parts) = 0 THEN ""
    ELSE IF Len(parts) = 1 THEN parts[1]
    ELSE parts[1] \o sep \o Join(Tail(parts), sep)

\* the set of characters of a string (the argument of lstrip(chars))
CharsOf(s) == { SubSeq(s, i, i) : i \in 1..Len(s) }

\* s[from:] of a list, with a 0-based Python index
DropFirst(s, n) == SubSeq(s, n + 1, Len(s))

(***************************************************************************)
(* doctags.py: the tag model                                               *)
(***************************************************************************)

ParTag(name, typename, description) ==
    [kind |-> "ParTag", name |-> name, typename |-> typename,
     description |-> description]

RetTag(typename, description) ==
    [kind |-> "RetTag", typename |-> typename, description |-> description]

ErrTag(typename, description) ==
    [kind |-> "ErrTag", typename |-> typename, description |-> description]

(***************************************************************************)
(* docparse.py: RstDocstringParser                                         *)
(***************************************************************************)

RST_EXAMPLE_TAG == ":Example:"

\* os.linesep on the POSIX platforms the package is run on
linesep == "\n"

\* exception kinds that can leave a parse
LucidocError == "LucidocError"

IndexError == "IndexError"

TypeError == "TypeError"

\* raise kind(msg): the call ends with an exception
Raise(kind, msg) == [ok |-> FALSE, error |-> kind, msg |-> msg]

\* return v: the call ends normally
Return(v) == [ok |-> TRUE, value |-> v]

ParsedDocstringResult(doc, desc, params, returns, raises, examples) ==
    [doc |-> doc, desc |-> desc, params |-> params, returns |-> returns,
     raises |-> raises, examples |-> examples]

_is_blank(l) == Strip(l) = ""

_is_tag_start(l) == StartsWith(l, ":") /\ ~StartsWith(l, RST_EXAMPLE_TAG)

_past_desc(l) == StartsWith(l, ":")

\* seek_past_head: the number of leading lines that are neither blank nor a
\* tag start (the head is ls[:n], the returned index is n)
RECURSIVE seek_past_head(_)
seek_past_head(ls) ==
    IF Len(ls) = 0 \/ _is_blank(ls[1]) \/ _is_tag_start(ls[1])
    THEN 0
    ELSE 1 + seek_past_head(Tail(ls))

\* takewhile(lambda l: not self._past_desc(l), ls)
RECURSIVE TakeDesc(_)
TakeDesc(ls) ==
    IF Len(ls) = 0 \/ _past_desc(ls[1])
    THEN << >>
    ELSE << ls[1] >> \o TakeDesc(Tail(ls))

\* dropwhile(lambda l: not self._past_desc(l), ls)
RECURSIVE DropDesc(_)
DropDesc(ls) ==
    IF Len(ls) = 0 \/ _past_desc(ls[1])
    THEN ls
    ELSE DropDesc(Tail(ls))

\* filterfalse(self._is_blank, ls)
RECURSIVE NonBlank(_)
NonBlank(ls) ==
    IF Len(ls) = 0 THEN << >>
    ELSE IF _is_blank(ls[1]) THEN NonBlank(Tail(ls))
    ELSE << ls[1] >> \o NonBlank(Tail(ls))

\* [l.strip() for l in ls]
StripAll(ls) == [i \in 1..Len(ls) |-> Strip(ls[i])]

\* [l.lstrip() for l in ls]
LStripAll(ls) == [i \in 1..Len(ls) |-> LStrip(ls[i])]


\* mutant of tag_loop: the block being collected when the region ends is
\* not added to the blocks
RECURSIVE tag_loop_drops_open_block(_, _, _, _)
tag_loop_drops_open_block(post_desc, i, curr_block, raw_tag_blocks) ==
    LET closed == IF Len(curr_block) > 0
                  THEN Append(raw_tag_blocks, curr_block)
                  ELSE raw_tag_blocks
    IN  IF i >= Len(post_desc)
        THEN [raw_tag_blocks |-> raw_tag_blocks, first_non_tag_index |-> None]
        ELSE IF _is_blank(post_desc[i + 1])
        THEN [raw_tag_blocks |-> raw_tag_blocks,
              first_non_tag_index |-> Some(i + 1)]
        ELSE LET l == Strip(post_desc[i + 1])
             IN  IF _is_tag_start(l)
                 THEN tag_loop_drops_open_block(post_desc, i + 1, << l >>,
                                                closed)
                 ELSE tag_loop_drops_open_block(post_desc, i + 1,
                                                Append(curr_block, l),
                                                raw_tag_blocks)

\* mutant of tag_loop: the block being collected is closed at a declaration
\* and at the end of the region even when it has no line
RECURSIVE tag_loop_closes_empty_block(_, _, _, _)
tag_loop_closes_empty_block(post_desc, i, curr_block, raw_tag_blocks) ==
    LET closed == Append(raw_tag_blocks, curr_block)
    IN  IF i >= Len(post_desc)
        THEN [raw_tag_blocks |-> closed, first_non_tag_index |-> None]
        ELSE IF _is_blank(post_desc[i + 1])
        THEN [raw_tag_blocks |-> closed, first_non_tag_index |-> Some(i + 1)]
        ELSE LET l == Strip(post_desc[i + 1])
             IN  IF _is_tag_start(l)
                 THEN tag_loop_closes_empty_block(post_desc, i + 1, << l >>,
                                                  closed)
                 ELSE tag_loop_closes_empty_block(post_desc, i + 1,
                                                  Append(curr_block, l),
                                                  raw_tag_blocks)

\* mutant of tag_loop: a blank line is skipped and the scan goes on to the
\* last line
RECURSIVE tag_loop_past_blank(_, _, _, _)
tag_loop_past_blank(post_desc, i, curr_block, raw_tag_blocks) ==
    LET closed == IF Len(curr_block) > 0
                  THEN Append(raw_tag_blocks, curr_block)
                  ELSE raw_tag_blocks
    IN  IF i >= Len(post_desc)
        THEN [raw_tag_blocks |-> closed, first_non_tag_index |-> None]
        ELSE IF _is_blank(post_desc[i + 1])
        THEN tag_loop_past_blank(post_desc, i + 1, curr_block, raw_tag_blocks)
        ELSE LET l == Strip(post_desc[i + 1])
             IN  IF _is_tag_start(l)
                 THEN tag_loop_past_blank(post_desc, i + 1, << l >>, closed)
                 ELSE tag_loop_past_blank(post_desc, i + 1,
                                          Append(curr_block, l),
                                          raw_tag_blocks)

\* _parse, the tag loop: post_desc is scanned from the 0-based index i with
\* the block being collected (curr_block) and the blocks closed so far
\* (raw_tag_blocks); a blank line breaks the loop and sets
\* first_non_tag_index, exhausting the lines sets it to None
RECURSIVE tag_loop(_, _, _, _)
tag_loop(post_desc, i, curr_block, raw_tag_blocks) ==
    LET closed == IF Len(curr_block) > 0
                  THEN Append(raw_tag_blocks, curr_block)
                  ELSE raw_tag_blocks
    IN  IF i >= Len(post_desc)
        THEN [raw_tag_blocks |-> closed, first_non_tag_index |-> None]
        ELSE IF _is_blank(post_desc[i + 1])
        THEN [raw_tag_blocks |-> closed, first_non_tag_index |-> Some(i + 1)]
        ELSE LET l == Strip(post_desc[i + 1])
             IN  IF _is_tag_start(l)
                 THEN tag_loop(post_desc, i + 1, << l >>, closed)
                 ELSE tag_loop(post_desc, i + 1, Append(curr_block, l),
                               raw_tag_blocks)

\* _parse, lines 185-203: the tag region of post_desc
tag_region(post_desc) ==
    IF Len(post_desc) > 0 /\ _is_tag_start(post_desc[1])
    THEN tag_loop(post_desc, 0, << >>, << >>)
    ELSE [raw_tag_blocks |-> << >>, first_non_tag_index |-> Some(0)]

\* the tag classes a declaration line's prefix selects ("" when none does)
tag_type_of(line) ==
    IF StartsWith(line, ":param") THEN "ParTag"
    ELSE IF StartsWith(line, ":returns") \/ StartsWith(line, ":return")
    THEN "RetTag"
    ELSE IF StartsWith(line, ":raise") \/ StartsWith(line, ":raises")
    THEN "ErrTag"
    ELSE ""

\* mutant of tag_args: the keyword token stays in the typename of a return
\* or error tag
tag_args_keep_keyword(tt, left, desc) ==
    IF tt = "ParTag"
    THEN LET mid_parts == Split(left, " ")
         IN  << mid_parts[Len(mid_parts)],
                Join(SubSeq(mid_parts, 2, Len(mid_parts) - 1), " "),
                desc >>
    ELSE << left, desc >>

\* mutant of tag_args: the name of a parameter is the first token after the
\* keyword, the typename the tokens after it
tag_args_name_first(tt, left, desc) ==
    IF tt = "ParTag"
    THEN LET mid_parts == Split(left, " ")
         IN  << mid_parts[IF Len(mid_parts) > 1 THEN 2 ELSE 1],
                Join(SubSeq(mid_parts, 3, Len(mid_parts)), " "),
                desc >>
    ELSE << Join(Tail(Split(left, " ")), " "), desc >>

\* _parse_tag_start, lines 244-252: the constructor arguments, given the
\* tag class, the first of the parts between the first and the last colon
\* and the text after the last colon
tag_args(tt, left, desc) ==
    IF tt = "ParTag"
    THEN LET mid_parts == Split(left, " ")
         IN  << mid_parts[Len(mid_parts)],
                Join(SubSeq(mid_parts, 2, Len(mid_parts) - 1), " "),
                desc >>
    ELSE << Join(Tail(Split(left, " ")), " "), desc >>

\* mutant of decode_start: the description is all the text after the colon
\* that closes the first part
decode_start_after_second_colon(tt, colon_chunks) ==
    LET left_parts == SubSeq(colon_chunks, 2, Len(colon_chunks) - 1)
        desc == Join(SubSeq(colon_chunks, 3, Len(colon_chunks)), ":")
    IN  IF tt = ""
        THEN Raise(LucidocError, "Invalid tag declaration start")
        ELSE IF Len(left_parts) = 0
        THEN Raise(IndexError, "list index out of range")
        ELSE Return([tt |-> tt, args |-> tag_args(tt, left_parts[1], desc)])

\* _parse_tag_start, lines 234-252, given the tag class (if any) and
\* colon_chunks = line.split(":"); left_parts[0] raises IndexError when
\* left_parts = colon_chunks[1:-1] is empty
decode_start(tt, colon_chunks) ==
    LET left_parts == SubSeq(colon_chunks, 2, Len(colon_chunks) - 1)
        desc == colon_chunks[Len(colon_chunks)]
    IN  IF tt = ""
        THEN Raise(LucidocError, "Invalid tag declaration start")
        ELSE IF Len(left_parts) = 0
        THEN Raise(IndexError, "list index out of range")
        ELSE Return([tt |-> tt, args |-> tag_args(tt, left_parts[1], desc)])

\* _parse_tag_start: the tag class and the constructor arguments of a
\* declaration line
_parse_tag_start(line) == decode_start(tag_type_of(line), Split(line, ":"))

\* tag_type(*args)
make_tag(tt, args) ==
    IF tt = "ParTag" THEN ParTag(args[1], args[2], args[3])
    ELSE IF tt = "RetTag" THEN RetTag(args[1], args[2])
    ELSE ErrTag(args[1], args[2])

\* mutant of with_continuation: a space separates the description from the
\* continuation lines
with_continuation_spaced(args, chunk) ==
    IF Len(chunk) > 1
    THEN [args EXCEPT ![Len(args)] = @ \o " " \o Join(LStripAll(Tail(chunk)), " ")]
    ELSE args

\* _get_tag, lines 143-144: the continuation lines of the chunk, joined
\* with single spaces, are appended to the last argument
with_continuation(args, chunk) ==
    IF Len(chunk) > 1
    THEN [args EXCEPT ![Len(args)] = @ \o Join(LStripAll(Tail(chunk)), " ")]
    ELSE args

\* _get_tag, lines 142-146, given the outcome of _parse_tag_start
tag_from(start, chunk) ==
    IF ~start.ok THEN start
    ELSE Return(make_tag(start.value.tt,
                         with_continuation(start.value.args, chunk)))

\* _get_tag: the tag of a chunk of lines
_get_tag(chunk) ==
    IF Len(chunk) = 0
    THEN Raise(LucidocError, "Empty tag chunk")
    ELSE tag_from(_parse_tag_start(chunk[1]), chunk)

\* the outcomes of a sequence that are values, in order
RECURSIVE Decoded(_)
Decoded(decoded) ==
    IF Len(decoded) = 0 THEN << >>
    ELSE (IF decoded[1].ok THEN << decoded[1].value >> ELSE << >>)
           \o Decoded(Tail(decoded))

\* mutant of collect_tags: chunks that fail to decode are skipped
collect_tags_salvage(decoded) == Return(Decoded(decoded))

\* line 209, given the outcome of _get_tag for each chunk: the first chunk
\* that fails to decode ends the comprehension with its exception
collect_tags(decoded) ==
    IF \A i \in 1..Len(decoded) : decoded[i].ok
    THEN Return([i \in 1..Len(decoded) |-> decoded[i].value])
    ELSE decoded[CHOOSE i \in 1..Len(decoded) :
                    /\ ~decoded[i].ok
                    /\ \A j \in 1..(i - 1) : decoded[j].ok]

\* tags = [self._get_tag(chunk) for chunk in raw_tag_blocks]
get_tags(raw_tag_blocks) ==
    collect_tags([i \in 1..Len(raw_tag_blocks) |-> _get_tag(raw_tag_blocks[i])])

\* the tags of one class, in order of appearance
RECURSIVE tags_of_kind(_, _)
tags_of_kind(tags, kind) ==
    IF Len(tags) = 0 THEN << >>
    ELSE IF tags[1].kind = kind
    THEN << tags[1] >> \o tags_of_kind(Tail(tags), kind)
    ELSE tags_of_kind(Tail(tags), kind)

\* bookend, the Markdown fence of three backquotes: a TLA+ string cannot hold
\* a backquote, so the apostrophe stands for it
bookend == "'''"

tag_code_block == ".. code-block::"

\* add_curr: acc with the current chunk closed into a fenced block
add_curr(acc, ct, chunk) ==
    LET ctl == bookend \o (IF ct = None \/ ct = Some("") THEN "console"
                           ELSE ct[1])
    IN  Append(acc, << ctl >> \o chunk \o << bookend >>)

\* burn_blanks: dropwhile(self._is_blank, c)
RECURSIVE burn_blanks(_)
burn_blanks(c) ==
    IF Len(c) > 0 /\ _is_blank(c[1]) THEN burn_blanks(Tail(c)) ELSE c

\* the code type a marker or directive line h sets
code_type_of(h) ==
    IF StartsWith(h, tag_code_block)
    THEN Some(Strip(LStripChars(h, CharsOf(tag_code_block))))
    ELSE None

\* _create_code_blocks: the recursion over the examples section's lines
RECURSIVE _create_code_blocks(_, _, _, _)
_create_code_blocks(lines, code_type, curr, acc) ==
    IF Len(lines) = 0
    THEN IF Len(curr) > 0 THEN add_curr(acc, code_type, curr) ELSE acc
    ELSE LET h == lines[1]
             t == Tail(lines)
         IN  IF StartsWith(h, RST_EXAMPLE_TAG) \/ StartsWith(h, tag_code_block)
             THEN _create_code_blocks(
                      burn_blanks(t), code_type_of(h), << >>,
                      IF Len(curr) > 0 THEN add_curr(acc, code_type, curr)
                      ELSE acc)
             ELSE _create_code_blocks(t, code_type, Append(curr, h), acc)

\* ["\n".join(b) for b in example_blocks]
join_blocks(example_blocks) ==
    [i \in 1..Len(example_blocks) |-> Join(example_blocks[i], "\n")]

\* mutant of _parse_example_lines: an empty examples section gives an empty
\* sequence of blocks
_parse_example_lines_empty_list(ls) ==
    IF Len(ls) > 0 /\ ~StartsWith(ls[1], RST_EXAMPLE_TAG)
    THEN None
    ELSE Some(join_blocks(_create_code_blocks(ls, None, << >>, << >>)))

\* _parse_example_lines: None unless the lines begin with the marker
_parse_example_lines(ls) ==
    IF Len(ls) = 0 \/ ~StartsWith(ls[1], RST_EXAMPLE_TAG)
    THEN None
    ELSE Some(join_blocks(_create_code_blocks(ls, None, << >>, << >>)))

\* mutant of join_desc: the blank line is added before the detail lines
\* even when the head is empty
join_desc_always_blank(head, detail_lines) ==
    IF Len(detail_lines) > 0
    THEN head \o "\n\n" \o Join(detail_lines, "\n")
    ELSE head

\* _parse, lines 180-182: the description of a headline and detail lines
join_desc(head, detail_lines) ==
    IF Len(detail_lines) > 0
    THEN head \o (IF head # "" THEN "\n\n" ELSE "")
              \o Join(detail_lines, "\n")
    ELSE head

\* _parse, lines 171-182: the description, given lines and non_head_index
description_of(lines, non_head_index) ==
    join_desc(Join(StripAll(SubSeq(lines, 1, non_head_index)), " "),
              NonBlank(TakeDesc(DropFirst(lines, non_head_index))))

\* mutant of check_returns: the multiplicity test is off by one
check_returns_off_by_one(par, rets, err) ==
    IF Len(rets) > 2
    THEN Raise(LucidocError, "Multiple returns tags")
    ELSE Return([par |-> par,
                 ret |-> IF Len(rets) > 0 THEN Some(rets[1]) ELSE None,
                 err |-> err])

\* _parse, lines 222-225, given the tags partitioned by class
check_returns(par, rets, err) ==
    IF Len(rets) > 1
    THEN Raise(LucidocError, "Multiple returns tags")
    ELSE Return([par |-> par,
                 ret |-> IF Len(rets) > 0 THEN Some(rets[1]) ELSE None,
                 err |-> err])

\* _parse, lines 211-225: partition the tags by class and check the
\* multiplicity of the return tag
classify(tags) ==
    IF \E i \in 1..Len(tags) : tags[i].kind \notin {"ParTag", "RetTag", "ErrTag"}
    THEN Raise(TypeError, "Unrecognized doc tag type")
    ELSE check_returns(tags_of_kind(tags, "ParTag"),
                       tags_of_kind(tags, "RetTag"),
                       tags_of_kind(tags, "ErrTag"))

\* _parse, lines 205-207: the lines handed to _parse_example_lines
example_lines(post_desc, first_non_tag_index) ==
    IF first_non_tag_index = None THEN << >>
    ELSE DropFirst(post_desc, first_non_tag_index[1])

\* _parse, lines 227-229, given the classified tags c: the result
\* assembled, or the exception of the classification
assemble(ds, desc, examples, c) ==
    IF ~c.ok THEN c
    ELSE Return(ParsedDocstringResult(ds, desc, c.value.par, c.value.ret,
                                      c.value.err, examples))

\* _parse, lines 209-229, given the decoded tags
finish(ds, desc, examples, tags) ==
    IF ~tags.ok THEN tags
    ELSE assemble(ds, desc, examples, classify(tags.value))

\* _parse, lines 205-229, given the tag region
parse_sections(ds, desc, post_desc, region) ==
    finish(ds, desc,
           _parse_example_lines(
               example_lines(post_desc, region.first_non_tag_index)),
           get_tags(region.raw_tag_blocks))

\* _parse, lines 185-229, given the description and post_desc
parse_body(ds, desc, post_desc) ==
    parse_sections(ds, desc, post_desc, tag_region(post_desc))

\* _parse, lines 171-229, given lines and non_head_index
parse_lines(ds, lines, non_head_index) ==
    parse_body(ds, description_of(lines, non_head_index),
               DropDesc(DropFirst(lines, non_head_index)))

\* _parse, lines 160-229, given lines
parse_split(ds, lines) == parse_lines(ds, lines, seek_past_head(lines))

\* _parse up to the assignment of line 227: the outcome of parsing ds, the
\* complete ParsedDocstringResult or the exception raised
_parse(ds) == parse_split(ds, Split(ds, linesep))

\* the fields of a ParsedDocstringResult a single-field fetch can ask for
FIELDS == {"desc", "params", "returns", "raises", "examples"}

\* mutant of _cached: any stored result counts as the result of ds
_cached_any(slot, ds) == slot # None

\* mutant of _cached: the texts are compared by their length
_cached_same_length(slot, ds) == slot # None /\ Len(slot[1].doc) = Len(ds)

\* mutant of _cached: a stored result whose text begins with ds counts as
\* the result of ds
_cached_by_prefix(slot, ds) == slot # None /\ StartsWith(slot[1].doc, ds)

\* _cached: the slot holds a result and its doc equals ds
_cached(slot, ds) == slot # None /\ slot[1].doc = ds

\* getattr(result, name) if name else result (name is None or Some(field))
project(result, name) == IF name = None THEN result ELSE result[name[1]]

\* mutant of stored: the result of a parse is not kept
stored_nothing(slot, r) == slot

\* mutant of stored: the first result is kept for good
stored_first(slot, r) == IF r.ok /\ slot = None THEN Some(r.value) ELSE slot

\* mutant of stored: a parse that raises empties the slot
stored_cleared_by_failure(slot, r) == IF r.ok THEN Some(r.value) ELSE None

\* line 227: the slot after a parse of ds with outcome r on a miss
stored(slot, r) == IF r.ok THEN Some(r.value) ELSE slot

(***************************************************************************)
(* tests/conftest.py: the docstrings the test harness builds               *)
(***************************************************************************)

HEADLINE == "This is a short description."

DETAIL_LINES ==
    << "This description provides more detail",
       "split over multiple lines.",
       "It may or may not have intervening or flanking blank line(s)." >>

BOOL_PARAM == << ":param bool flag: this quickly describes a flag" >>

FUNC_PARAM ==
    << ":param function(int, int) -> float func: this maps two ints to a float" >>

ITER_PARAM ==
    << ":param Iterable[Mapping[str, function(Iterable[float]) -> float]] func_maps: ",
       "    this is a longer description, with too much content to be described on just ",
       "    one line." >>

UNION_PARAM == << ":param str | Iterable[str] env: environment variables to try" >>

RETURN == << ":return int: simple return code" >>

RETURN_MUTLI_LINE ==
    << ":return str: this is a ", "    multiline return comment" >>

VALUE_ERROR ==
    << ":raise ValueError: if given an invalid particular arg val." >>

TYPE_ERROR ==
    << ":raise TypeError: if one of the given arguments ",
       "    is of an unacceptable type" >>

CODE_EX1 ==
    << RST_EXAMPLE_TAG, "", ".. code-block:: python", "",
       "    from a import b", "    c = 3" >>

\* s.replace(old, new): the occurrences of old, left to right and not
\* overlapping, replaced by new
RECURSIVE Replace(_, _, _)
Replace(s, old, new) ==
    LET hits == { i \in 1..(Len(s) - Len(old) + 1) :
                    SubSeq(s, i, i + Len(old) - 1) = old }
    IN  IF hits = {} THEN s
        ELSE LET i == CHOOSE h \in hits : \A j \in hits : h <= j
             IN  SubSeq(s, 1, i - 1) \o new
                   \o Replace(SubSeq(s, i + Len(old), Len(s)), old, new)

\* _finalize_argument: each fragment (a list of lines) becomes one text
Texts(fragments) == [i \in 1..Len(fragments) |-> Join(fragments[i], "\n")]

\* DocstringSpecification.all_tag_texts
all_tag_texts(spec) == Texts(spec.params \o spec.returns \o spec.raises)

\* Python's a or b for texts
OrElse(a, b) == IF a # "" THEN a ELSE b

\* render, lines 401-407
desc_text_of(headline, detail) ==
    LET t == IF headline # "" /\ detail # ""
             THEN headline \o "\n\n" \o detail
             ELSE OrElse(headline, detail)
    IN  IF t # "" THEN t \o "\n" ELSE t

\* render, lines 412-417
before_examples_of(desc_text, pre_tags_space, tags_text) ==
    IF desc_text # "" /\ tags_text # ""
    THEN desc_text \o (IF pre_tags_space THEN "\n" ELSE "") \o tags_text
    ELSE OrElse(desc_text, tags_text)

\* render, lines 418-421
join_examples(before_examples, examples_text) ==
    IF before_examples # "" /\ examples_text # ""
    THEN before_examples \o "\n\n" \o examples_text
    ELSE OrElse(before_examples, examples_text)

\* render, lines 422-427
end_text(ds, trailing_space) ==
    Replace((IF EndsWith(ds, "\n") THEN ds ELSE ds \o "\n")
                \o (IF trailing_space THEN "\n" ELSE ""),
            "\n\n\n", "\n\n")

\* DocstringSpecification.render
render(spec) ==
    end_text(
        join_examples(
            before_examples_of(
                desc_text_of(Join(spec.headline, "\n"), Join(spec.detail, "\n")),
                spec.pre_tags_space,
                Join(all_tag_texts(spec), "\n")),
            Join(Texts(spec.examples),
                 IF spec.space_between_examples THEN "\n\n" ELSE "\n")),
        spec.trailing_space)

(***************************************************************************)
(* The docstrings presented to a parser                                    *)
(***************************************************************************)

\* bounds of the model
MaxLines == 3

MaxExamples == 2

\* the lines free-form docstrings are assembled from
LinePool ==
    { "Head.",
      "",
      ":param int x: c",
      ":return int: a",
      ":returns str: b",
      ":raises E: bad",
      "    more",
      ":Example:",
      ".. code-block:: python",
      "    x = 1",
      ":param x",
      ":else y: z" }

\* every sequence of at most n lines of the pool
LineSeqs(n) == UNION { [1..m -> LinePool] : m \in 0..n }

\* the concrete scenarios of the documentation
ScenarioDocs ==
    { "Computes a value.\n\n:param int x: the input\n:return int: doubled value\n",
      ":return int: a\n:returns str: b\n",
      ":Example:\n\n.. code-block:: python\n\n    x = 1\n",
      "Computes a value.\n\n:param int x: the input\n\n:Example:\n\n.. code-block:: python\n\n    x = 1\n" }

\* n copies of the example fragment
Examples(n) == [i \in 1..n |-> CODE_EX1]

\* the number of examples and whether blank lines separate them (the flag
\* changes the text only between two examples)
ExampleChoices ==
    { x \in (0..MaxExamples) \X BOOLEAN : x[1] >= 2 \/ x[2] }

\* the specifications the harness renders docstrings from: the description
\* pool, tag fragments in the order params, returns, raises, the spacing
\* flags and up to MaxExamples examples
DocSpecs ==
    { [headline |-> h, detail |-> d, params |-> p, returns |-> r,
       raises |-> e, pre_tags_space |-> pts, examples |-> Examples(x[1]),
       trailing_space |-> ts, space_between_examples |-> x[2]] :
        h \in {<< >>, << HEADLINE >>},
        d \in {<< >>, DETAIL_LINES},
        p \in {<< >>, << BOOL_PARAM >>, << ITER_PARAM, UNION_PARAM >>},
        r \in {<< >>, << RETURN >>, << RETURN_MUTLI_LINE >>,
               << RETURN, RETURN_MUTLI_LINE >>},
        e \in {<< >>, << VALUE_ERROR >>, << VALUE_ERROR, TYPE_ERROR >>},
        pts \in BOOLEAN, ts \in BOOLEAN,
        x \in ExampleChoices }

\* docstrings with indented lines in the tag region: a declaration, two
\* continuation lines and a declaration after the blank line; an unknown
\* keyword; a continuation line with colons
RegionDocs ==
    { ":param int x: c\n    :raises E: bad\n    more\n      on\n\n:return int: a",
      ":param int x: c\n  :else y: z",
      "Head.\n:raise E: bad\n  see: more  \n  :Example:" }

\* one docstring per run of the parse: free-form lines, a scenario text or
\* a harness specification
Inputs ==
    { [kind |-> "lines", lines |-> ls] : ls \in LineSeqs(MaxLines) }
    \cup { [kind |-> "text", text |-> t] : t \in ScenarioDocs \cup RegionDocs }
    \cup { [kind |-> "spec", spec |-> sp] : sp \in DocSpecs }

\* the docstring text of an input
Text(i) ==
    IF i.kind = "lines" THEN Join(i.lines, linesep)
    ELSE IF i.kind = "text" THEN i.text
    ELSE render(i.spec)

\* the docstrings the callers of one shared parser pass to it: texts with
\* every shape of result and of failure, the scenarios, and each line of
\* the pool as a docstring of its own
MemoDocs ==
    { "",
      "Computes a value.\n\nMore detail.\n",
      ":raise ValueError: bad\n:raises TypeError: worse\n    continued here",
      ":param int x: the input\n:unknown foo: bar",
      ":return int: a\n:param x" }
    \cup ScenarioDocs \cup LinePool

Pool == [kind |-> "pool"]

\* the docstrings an input makes available to the callers
Docs(i) == IF i.kind = "pool" THEN MemoDocs ELSE { Text(i) }

(***************************************************************************)
(* The parser as a state machine: last_seen is the memo slot, ret the      *)
(* most recent call (operation, argument, hit or miss, outcome)            *)
(***************************************************************************)

NoCall == [op |-> "none"]

\* a miss: the parse has outcome r; line 227 stores a result, line 229
\* projects it, an exception leaves the call
Miss(op, ds, name, r) ==
    /\ last_seen' = stored(last_seen, r)
    /\ ret' = [op |-> op, ds |-> ds, name |-> name, hit |-> FALSE,
               out |-> IF r.ok THEN Return(project(r.value, name)) ELSE r]
    /\ UNCHANGED input

\* a hit: the slot's result is projected, nothing is parsed
Hit(op, ds, name) ==
    /\ ret' = [op |-> op, ds |-> ds, name |-> name, hit |-> TRUE,
               out |-> Return(project(last_seen[1], name))]
    /\ UNCHANGED <<input, last_seen>>

\* __call__ (name = None) and _fetchparse (name = Some(field)): serve from
\* the slot if it is cached, else parse
Serve(op, ds, name) ==
    IF _cached(last_seen, ds)
    THEN Hit(op, ds, name)
    ELSE Miss(op, ds, name, _parse(ds))

__call__(ds) == Serve("__call__", ds, None)

description(ds) == Serve("description", ds, Some("desc"))

params(ds) == Serve("params", ds, Some("params"))

returns(ds) == Serve("returns", ds, Some("returns"))

raises(ds) == Serve("raises", ds, Some("raises"))

examples(ds) == Serve("examples", ds, Some("examples"))

\* __init__: the slot is empty
InitParser == last_seen = None /\ ret = NoCall

\* one parser shared by callers that hold the docstrings MemoDocs
Init == input = Pool /\ InitParser

Next ==
    \/ \E ds \in Docs(input) : __call__(ds)
    \/ \E ds \in Docs(input) : description(ds)
    \/ \E ds \in Docs(input) : params(ds)
    \/ \E ds \in Docs(input) : returns(ds)
    \/ \E ds \in Docs(input) : raises(ds)
    \/ \E ds \in Docs(input) : examples(ds)

Spec == Init /\ [][Next]_vars

\* a fresh parser given one docstring of the bounded input space
InitParse == input \in Inputs /\ InitParser

NextParse == \E ds \in Docs(input) : __call__(ds)

SpecParse == InitParse /\ [][NextParse]_vars

(***************************************************************************)
(* Properties                                                              *)
(***************************************************************************)

\* the call that led to the current state was a whole parse, parser(ds)
WholeCall == ret.op = "__call__"

\* the outcome is the multiple-return-tags error of line 223
IsMultipleReturns(out) ==
    ~out.ok /\ out.error = LucidocError /\ out.msg = "Multiple returns tags"

\* the number of lines of ds that declare a return tag, in either spelling
ReturnLineCount(ds) ==
    LET lines == Split(ds, linesep)
    IN  Cardinality({ i \in 1..Len(lines) :
                        StartsWith(Strip(lines[i]), ":return") })

\* the tag blocks of the tag region of ds: the lines from the first
\* tag-start line to the first blank line after it, one block per tag-start
\* line
RegionBlocks(ds) ==
    LET lines == Split(ds, linesep)
    IN  tag_region(DropDesc(DropFirst(lines, seek_past_head(lines)))).raw_tag_blocks

\* the blocks of the tag region that declare a return tag
ReturnBlocks(blocks) ==
    { i \in 1..Len(blocks) : StartsWith(blocks[i][1], ":return") }

\* every block of the tag region decodes to a tag
AllDecode(blocks) == \A i \in 1..Len(blocks) : _get_tag(blocks[i]).ok

\* C1 as stated: a docstring with two return-tag lines always raises the
\* multiple-return-tags error, one with zero or one never does, and on
\* success the returns field is that single tag or None
C1_Original ==
    WholeCall =>
        LET n == ReturnLineCount(ret.ds)
        IN  /\ n = 2 => IsMultipleReturns(ret.out)
            /\ n <= 1 => ~IsMultipleReturns(ret.out)
            /\ ret.out.ok =>
                 \/ ret.out.value.returns = None
                 \/ ret.out.value.returns[1].kind = "RetTag"

\* C1, amended: if the tag region of the docstring holds two or more return
\* declarations the parse never succeeds, and it raises the
\* multiple-return-tags error whenever every declaration of the region
\* decodes; with zero or one return declaration in the region that error is
\* never raised; on success the returns field is the tag decoded from the
\* single return declaration of the region, or None when there is none
C1_Multiplicity ==
    WholeCall =>
        LET blocks == RegionBlocks(ret.ds)
            rb == ReturnBlocks(blocks)
        IN  /\ Cardinality(rb) >= 2 =>
                 /\ ~ret.out.ok
                 /\ AllDecode(blocks) => IsMultipleReturns(ret.out)
            /\ Cardinality(rb) <= 1 => ~IsMultipleReturns(ret.out)
            /\ ret.out.ok /\ rb = {} => ret.out.value.returns = None
            /\ ret.out.ok /\ rb # {} =>
                 \A i \in rb :
                    ret.out.value.returns = Some(_get_tag(blocks[i]).value)

\* C1 witness: a docstring with both spellings of the return tag has been
\* parsed and the multiple-return-tags error raised
C1_Witness ==
    /\ WholeCall
    /\ ret.ds = ":return int: a\n:returns str: b\n"
    /\ IsMultipleReturns(ret.out)

\* the docstring of the two-tag scenario
TwoTagDoc ==
    "Computes a value.\n\n:param int x: the input\n:return int: doubled value\n"

\* C2: parsing the two-tag docstring yields description "Computes a value.",
\* one parameter tag (x, int, "the input"), the return tag (int,
\* "doubled value"), no error tags and no examples
C2_Scenario ==
    (WholeCall /\ ret.ds = TwoTagDoc) =>
        ret.out = Return(ParsedDocstringResult(
                      TwoTagDoc, "Computes a value.",
                      << ParTag("x", "int", "the input") >>,
                      Some(RetTag("int", "doubled value")),
                      << >>, None))

\* the docstring that consists of one example section
ExampleOnlyDoc == ":Example:\n\n.. code-block:: python\n\n    x = 1\n"

\* C3: parsing the docstring that consists of the example section yields
\* exactly one example block of three lines: the opening fence tagged
\* python, the de-indented content line, and the closing fence
C3_Scenario ==
    (WholeCall /\ ret.ds = ExampleOnlyDoc) =>
        /\ ret.out.ok
        /\ ret.out.value.examples =
               Some(<< Join(<< bookend \o "python", "x = 1", bookend >>, "\n") >>)

\* C4: after a whole call that succeeded the memo slot answers for its
\* text, so that the next call with that text does not run the parse; and
\* when a whole call has succeeded and the next call of the same parser is
\* a whole call with the same text, that call returns the identical result
\* (every field equal), is served from the memo slot, and leaves the slot
\* as it was
C4_Idempotent ==
    /\ []((WholeCall /\ ret.out.ok) => _cached(last_seen, ret.ds))
    /\ [][ (/\ ret.op = "__call__"
            /\ ret.out.ok
            /\ ret'.op = "__call__"
            /\ ret'.ds = ret.ds)
           => (/\ ret'.out = ret.out
               /\ \A f \in FIELDS \cup {"doc"} :
                     ret'.out.value[f] = ret.out.value[f]
               /\ ret'.hit
               /\ last_seen' = last_seen) ]_vars

\* C4 witness: a whole call with tags in its result has been served from
\* the memo slot
C4_Witness ==
    /\ WholeCall
    /\ ret.hit
    /\ ret.out.ok
    /\ ret.out.value.params # << >>
    /\ ret.out.value.returns # None

\* the field a single-field fetch projects
FieldOf(op) ==
    CASE op = "description" -> "desc"
      [] op = "params" -> "params"
      [] op = "returns" -> "returns"
      [] op = "raises" -> "raises"
      [] op = "examples" -> "examples"

\* the most recent call is a single-field fetch
FetchCall == ret.op \in {"description", "params", "returns", "raises", "examples"}

\* the outcome of a fetch agrees with the outcome r of the whole parse
Projects(out, r, f) ==
    /\ out.ok <=> r.ok
    /\ out.ok => out.value = r.value[f]
    /\ ~out.ok => out = r

\* C5: every single-field fetch returns the field of that name of the whole
\* parse of its argument, on a hit of the memo slot and on a miss, and
\* whatever the field holds
C5_Projection ==
    FetchCall => Projects(ret.out, _parse(ret.ds), FieldOf(ret.op))

\* C5 witness: a fetch of the examples of a docstring without examples has
\* been served from the memo slot, and returned None
C5_WitnessHit ==
    /\ ret.op = "examples"
    /\ ret.hit
    /\ ret.out = Return(None)
    /\ last_seen[1].params # << >>

\* the number of tags of a result
TagCount(v) ==
    Len(v.params) + Len(v.raises) + (IF v.returns = None THEN 0 ELSE 1)

\* v is the complete result of parsing ds: the description, every
\* declaration of the tag region decoded and classified, at most one return
\* tag, and the examples extracted from the lines after the region
Complete(v, ds, lines, blocks) ==
    /\ v.doc = ds
    /\ v.desc = description_of(lines, seek_past_head(lines))
    /\ AllDecode(blocks)
    /\ Cardinality(ReturnBlocks(blocks)) <= 1
    /\ TagCount(v) = Len(blocks)
    /\ \A i \in 1..Len(blocks) :
          LET t == _get_tag(blocks[i]).value
          IN  \/ t.kind = "ParTag" /\ \E j \in 1..Len(v.params) : v.params[j] = t
              \/ t.kind = "RetTag" /\ v.returns = Some(t)
              \/ t.kind = "ErrTag" /\ \E j \in 1..Len(v.raises) : v.raises[j] = t

\* the lines after the tag region of ds
AfterRegion(ds) ==
    LET lines == Split(ds, linesep)
        post_desc == DropDesc(DropFirst(lines, seek_past_head(lines)))
    IN  example_lines(post_desc, tag_region(post_desc).first_non_tag_index)

\* v is the complete result of parsing its own text
CompleteResult(v) ==
    /\ Complete(v, v.doc, Split(v.doc, linesep), RegionBlocks(v.doc))
    /\ v.examples = _parse_example_lines(AfterRegion(v.doc))

\* every declaration of the tag region of ds decodes and at most one of
\* them declares a return tag
Decodable(blocks) ==
    AllDecode(blocks) /\ Cardinality(ReturnBlocks(blocks)) <= 1

\* C6: the memo slot only ever holds a complete result; a call that returns
\* (a whole parse or a single-field fetch) returns the complete result of
\* its argument or the requested field of it; and a call raises exactly
\* when a declaration of the tag region fails to decode or the region
\* declares more than one return tag, so that no partial result is returned
C6_Atomic ==
    /\ last_seen # None => CompleteResult(last_seen[1])
    /\ ret.op # "none" =>
         /\ ret.out.ok <=> Decodable(RegionBlocks(ret.ds))
         /\ ret.out.ok =>
              /\ last_seen # None
              /\ last_seen[1].doc = ret.ds
              /\ ret.out.value = project(last_seen[1], ret.name)

\* C6 witness: a docstring whose first declaration decodes and whose second
\* does not has been fetched from, the call raised, and the memo slot still
\* holds the result of an earlier docstring
C6_Witness ==
    /\ ret.op = "params"
    /\ ret.ds = ":param int x: the input\n:unknown foo: bar"
    /\ ~ret.out.ok
    /\ last_seen # None

\* C7: every call that raises raises the package's base documentation
\* error, LucidocError
C7_SingleErrorKind ==
    (ret.op # "none" /\ ~ret.out.ok) => ret.out.error = LucidocError

\* ds with every occurrence of the keyword spelled with the final s
Lengthen(ds, kw) == Replace(Replace(ds, kw \o "s", kw), kw, kw \o "s")

\* ds with every occurrence of the keyword spelled without the final s
Shorten(ds, kw) == Replace(ds, kw \o "s", kw)

\* two outcomes of a parse with the same return tag and the same error
\* tags, or the same exception
SameTags(a, b) ==
    /\ a.ok <=> b.ok
    /\ a.ok => /\ a.value.returns = b.value.returns
               /\ a.value.raises = b.value.raises
    /\ ~a.ok => a = b

\* the parse of the respelled docstring has the tags of out, the outcome of
\* the parse of ds (a respelling that changes nothing is the parse of ds)
SameRespelled(out, ds, respelled) ==
    respelled = ds \/ SameTags(out, _parse(respelled))

\* the most recent call is a whole call that ran the parse
Parsed == WholeCall /\ ~ret.hit

\* the first word of the typename of a tag is not a tag keyword
KeywordFree(t) ==
    Split(t.typename, " ")[1] \notin
        {"return", "returns", "raise", "raises", ":return", ":returns",
         ":raise", ":raises"}

\* C8: respelling every :return as :returns, every :returns as :return,
\* every :raise as :raises or every :raises as :raise leaves the outcome of
\* the parse with the same return tag (kind, typename, description) and the
\* same error tags in the same order, or with the same exception; and no
\* typename of a return or error tag begins with the keyword
C8_SpellingEquivalence ==
    Parsed =>
        /\ \A kw \in {":return", ":raise"} :
              /\ SameRespelled(ret.out, ret.ds, Lengthen(ret.ds, kw))
              /\ SameRespelled(ret.out, ret.ds, Shorten(ret.ds, kw))
        /\ ret.out.ok =>
              /\ ret.out.value.returns # None =>
                    KeywordFree(ret.out.value.returns[1])
              /\ \A i \in 1..Len(ret.out.value.raises) :
                    KeywordFree(ret.out.value.raises[i])

\* C8 witness: a docstring that spells one keyword with the final s and the
\* other without it has been parsed into a return tag and error tags
C8_Witness ==
    /\ Parsed
    /\ ret.out.ok
    /\ ret.out.value.returns # None
    /\ ret.out.value.raises # << >>
    /\ Lengthen(ret.ds, ":return") # ret.ds
    /\ Shorten(ret.ds, ":raise") # ret.ds

\* the most recent call parsed the docstring rendered from a harness
\* specification with at most one return fragment
ParsedSpec ==
    /\ Parsed
    /\ input.kind = "spec"
    /\ Len(input.spec.returns) <= 1

\* C9: a docstring rendered from p parameter fragments, r <= 1 return
\* fragments and e error fragments, whatever the headline, the detail, the
\* blank line before the tags, the examples and the trailing blank line,
\* parses to p parameter tags, a return tag iff r = 1, and e error tags
C9_TagCount ==
    ParsedSpec =>
        /\ ret.out.ok
        /\ Len(ret.out.value.params) = Len(input.spec.params)
        /\ (ret.out.value.returns # None) <=> (Len(input.spec.returns) = 1)
        /\ Len(ret.out.value.raises) = Len(input.spec.raises)
        /\ TagCount(ret.out.value) =
              Len(input.spec.params) + Len(input.spec.returns)
                + Len(input.spec.raises)

\* C9 witness: a docstring rendered with two parameter fragments (one with
\* continuation lines), a multi-line return fragment, two error fragments,
\* no blank line before the tags and an examples section has been parsed
C9_Witness ==
    /\ ParsedSpec
    /\ input.spec.params = << ITER_PARAM, UNION_PARAM >>
    /\ input.spec.returns = << RETURN_MUTLI_LINE >>
    /\ input.spec.raises = << VALUE_ERROR, TYPE_ERROR >>
    /\ ~input.spec.pre_tags_space
    /\ input.spec.examples # << >>
    /\ TagCount(ret.out.value) = 5

\* the number of example blocks of an examples field
BlockCount(ex) == IF ex = None THEN 0 ELSE Len(ex[1])

\* no line of a fenced block is an example marker line
NoMarkerInside(block) ==
    \A l \in { Split(block, "\n")[i] : i \in 1..Len(Split(block, "\n")) } :
        ~StartsWith(LStrip(l), RST_EXAMPLE_TAG)

\* C10: a docstring rendered with N example sections, with or without
\* blank lines between them, parses to exactly N fenced blocks, none of
\* which contains the marker line of an example
C10_ExampleCount ==
    ParsedSpec =>
        /\ ret.out.ok
        /\ BlockCount(ret.out.value.examples) = Len(input.spec.examples)
        /\ ret.out.value.examples # None =>
              \A i \in 1..Len(ret.out.value.examples[1]) :
                    NoMarkerInside(ret.out.value.examples[1][i])

\* no line of the docstring starts with a colon
NoColonLine(ds) ==
    \A l \in { Split(ds, linesep)[i] : i \in 1..Len(Split(ds, linesep)) } :
        ~StartsWith(l, ":")

\* C11: a docstring none of whose lines starts with a colon parses without
\* error to no parameter tags, no error tags, a returns field of None and
\* no examples
C11_NoTags ==
    (Parsed /\ NoColonLine(ret.ds)) =>
        /\ ret.out.ok
        /\ ret.out.value.params = << >>
        /\ ret.out.value.raises = << >>
        /\ ret.out.value.returns = None
        /\ ret.out.value.examples = None

\* C11 witness: a docstring with a headline and detail lines and no line
\* starting with a colon has been parsed
C11_Witness ==
    /\ Parsed
    /\ NoColonLine(ret.ds)
    /\ input.kind = "spec"
    /\ input.spec.headline # << >>
    /\ input.spec.detail # << >>
    /\ ret.out.ok

(***************************************************************************)
(* doctags.MdTagRenderer: the renderer applied to one argument             *)
(***************************************************************************)

\* the base class DocTag, which the three tag classes extend
DocTag(tn, desc) ==
    [kind |-> "DocTag", typename |-> tn, description |-> desc]

\* a value that is no tag at all (a string, None, a number)
NonTag(type) == [kind |-> type]

\* the backquote of the format strings (written as an apostrophe)
tick == "'"

\* mutant of MdTagRenderer: a value of no known tag class is rendered like
\* a return tag
MdTagRenderer_lenient(t) ==
    IF t.kind = "ParTag"
    THEN Return("- " \o tick \o t.name \o tick \o " (" \o tick \o t.typename
                     \o tick \o "): " \o t.description)
    ELSE IF t.kind \in {"RetTag", "ErrTag", "DocTag"}
    THEN Return("- " \o tick \o t.typename \o tick \o ": " \o t.description)
    ELSE Return("")

\* MdTagRenderer.__call__: the Markdown line of a tag, or TypeError
MdTagRenderer(t) ==
    IF t.kind = "ParTag"
    THEN Return("- " \o tick \o t.name \o tick \o " (" \o tick \o t.typename
                     \o tick \o "): " \o t.description)
    ELSE IF t.kind = "RetTag"
    THEN Return("- " \o tick \o t.typename \o tick \o ": " \o t.description)
    ELSE IF t.kind = "ErrTag"
    THEN Return("- " \o tick \o t.typename \o tick \o ": " \o t.description)
    ELSE Raise(TypeError, "Invalid tag type")

\* the tags of a successful parse, in the order doc_callable renders them
TagsOf(r) ==
    IF r.ok THEN r.value.params \o r.value.raises \o r.value.returns
    ELSE << >>

\* the arguments presented to the renderer: every tag parsed from the
\* docstrings of MemoDocs, tags and base-class values built directly from
\* names, typenames and descriptions (each without a line break, as in
\* every tag the parser builds from the lines of a docstring), and values
\* that are no tags
RenderArgs ==
    UNION { { TagsOf(_parse(ds))[i] : i \in 1..Len(TagsOf(_parse(ds))) } :
              ds \in MemoDocs }
    \cup { ParTag(n, tn, d) : n \in {"x", "flag", "env"},
                              tn \in {"", "int", "str | Iterable[str]"},
                              d \in {"", " the input", "simple return code"} }
    \cup { make[1] : make \in
               { << RetTag(tn, d), ErrTag(tn, d), DocTag(tn, d) >>[k] :
                   k \in 1..3,
                   tn \in {"", "int", "str | Iterable[str]"},
                   d \in {"", " the input", "simple return code"} } \X {0} }
    \cup { NonTag(ty) : ty \in {"str", "NoneType", "int", "list"} }

\* the renderer is given one argument of RenderArgs
InitRender ==
    /\ input \in { [kind |-> "tag", t |-> t] : t \in RenderArgs }
    /\ InitParser

\* show_tag(t): the call of the renderer on the argument
show_tag ==
    /\ ret' = [op |-> "render", t |-> input.t, out |-> MdTagRenderer(input.t)]
    /\ UNCHANGED <<input, last_seen>>

SpecRender == InitRender /\ [][show_tag]_vars

\* sub occurs in s
Contains(s, sub) ==
    \E i \in 1..(Len(s) - Len(sub) + 1) : SubSeq(s, i, i + Len(sub) - 1) = sub

\* s is a single line
OneLine(s) == ~Contains(s, "\n")

KeyError == "KeyError"

Exception == "Exception"

ErrorDuringImport == "ErrorDuringImport"

\* _unprotected: the name does not start with an underscore
_unprotected(name) == ~StartsWith(name, "_")

\* one call of the parser with the slot given: __call__ when name is None,
\* _fetchparse otherwise; the outcome and the slot after the call
parsed_call(slot, name, r) ==
    [out |-> IF r.ok THEN Return(project(r.value, name)) ELSE r,
     slot |-> stored(slot, r)]

parser_call(slot, ds, name) ==
    IF _cached(slot, ds)
    THEN [out |-> Return(project(slot[1], name)), slot |-> slot]
    ELSE parsed_call(slot, name, _parse(ds))

\* [render_tag(t) for t in tags]
render_all(tags) == [i \in 1..Len(tags) |-> MdTagRenderer(tags[i]).value]

\* doc_callable, lines 470-489: the chunk of a function, method or property
\* with docstring ds documented under the name n, given the outcome of
\* docstr_parser(ds)
callable_chunk(n, parsed) ==
    [section |-> "function", name |-> n,
     desc |-> Some(parsed.desc),
     params |-> render_all(parsed.params),
     returns |-> render_all(parsed.returns),
     raises |-> render_all(parsed.raises),
     examples |-> << >>]

\* doc_callable for an object without docstring: the signature only
bare_chunk(section, n) ==
    [section |-> section, name |-> n, desc |-> None, params |-> << >>,
     returns |-> << >>, raises |-> << >>, examples |-> << >>]

\* doc_callable: the outcome (the chunk, or the exception of the parse) and
\* the slot after documenting f under the name n; the call of line 472 is
\* followed by docstr_parser.description(ds) at line 489, which the slot
\* serves
callable_doc(n, c) ==
    IF c.out.ok
    THEN [out |-> Return(<< callable_chunk(n, c.out.value) >>), slot |-> c.slot]
    ELSE c

doc_callable(f, n, slot) ==
    IF f.doc = None \/ f.doc = Some("")
    THEN [out |-> Return(<< bare_chunk("function", n) >>), slot |-> slot]
    ELSE callable_doc(n, parser_call(slot, f.doc[1], None))

\* doc_class, lines 357-381: the chunk of the head of a class, given the
\* outcome of docstr_parser(class_docstr); a return tag in a class
\* docstring raises LucidocError
class_head(cls, nested, parsed) ==
    IF parsed.returns # None
    THEN Raise(LucidocError, "Class docstring has a return value")
    ELSE Return(<< [section |-> "class", name |-> cls.name,
                    desc |-> IF parsed.desc # "" THEN Some(parsed.desc) ELSE None,
                    params |-> render_all(parsed.params),
                    returns |-> << >>,
                    raises |-> render_all(parsed.raises),
                    examples |-> IF parsed.examples = None THEN << >>
                                 ELSE parsed.examples[1]] >>)

\* doc_class, lines 352-381: the outcome for the head of the class and the
\* slot after it
class_doc(cls, nested, c) ==
    IF c.out.ok
    THEN [out |-> class_head(cls, nested, c.out.value), slot |-> c.slot]
    ELSE c

doc_class_head(cls, nested, slot) ==
    IF cls.doc = None \/ cls.doc = Some("")
    THEN [out |-> Return(<< bare_chunk("class", cls.name) >>), slot |-> slot]
    ELSE class_doc(cls, nested, parser_call(slot, cls.doc[1], None))

\* mutant of use_as_fun: the name of a function member is not looked at
use_as_fun_any_name(m, include_inherited) ==
    /\ m.obj.kind \in {"function", "method", "property"}
    /\ include_inherited \/ m.obj.kind = "property" \/ ~m.inherited

\* eligible, use_as_fun and use_obj of doc_class, lines 385-411: the member
\* is documented as a function
use_as_fun(m, include_inherited) ==
    /\ m.obj.kind \in {"function", "method", "property"}
    /\ include_inherited \/ m.obj.kind = "property" \/ ~m.inherited
    /\ _unprotected(m.name)

\* select and pred of the nested classes, lines 416-418
use_as_class(m) == m.obj.kind = "class" /\ _unprotected(m.name)

\* two outcomes in sequence: the chunks of both, or the first exception
then_chunks(first, second) ==
    IF ~first.out.ok THEN first
    ELSE IF ~second.out.ok THEN second
    ELSE [out |-> Return(first.out.value \o second.out.value),
          slot |-> second.slot]

\* _proc_objs over the function members of a class (lines 412-415): the
\* members are documented in order, the slot passing from one to the next
RECURSIVE func_docs(_, _, _)
RECURSIVE func_docs_after(_, _, _)
func_docs_after(d, members, include_inherited) ==
    IF ~d.out.ok THEN d
    ELSE then_chunks(d, func_docs(members, include_inherited, d.slot))

func_docs(members, include_inherited, slot) ==
    IF Len(members) = 0 THEN [out |-> Return(<< >>), slot |-> slot]
    ELSE IF ~use_as_fun(members[1], include_inherited)
    THEN func_docs(Tail(members), include_inherited, slot)
    ELSE func_docs_after(doc_callable(members[1].obj, members[1].name, slot),
                         Tail(members), include_inherited)

\* doc_class: the chunks of a class, of its function members and of its
\* nested classes, or the first exception, and the slot afterwards
RECURSIVE doc_class(_, _, _, _)
RECURSIVE subcls_docs(_, _, _)
RECURSIVE subcls_docs_after(_, _, _)
subcls_docs_after(d, members, include_inherited) ==
    IF ~d.out.ok THEN d
    ELSE then_chunks(d, subcls_docs(members, include_inherited, d.slot))

subcls_docs(members, include_inherited, slot) ==
    IF Len(members) = 0 THEN [out |-> Return(<< >>), slot |-> slot]
    ELSE IF ~use_as_class(members[1])
    THEN subcls_docs(Tail(members), include_inherited, slot)
    ELSE subcls_docs_after(
             doc_class(members[1].obj, include_inherited, TRUE, slot),
             Tail(members), include_inherited)

\* line 420 given the head and the function members: cls_doc + func_docs +
\* subcls_docs
class_subclasses(cls, include_inherited, head, funcs) ==
    IF ~funcs.out.ok THEN funcs
    ELSE then_chunks(
             head,
             then_chunks(funcs, subcls_docs(cls.members, include_inherited,
                                            funcs.slot)))

\* doc_class, lines 412-420, given the outcome of the head
class_members(cls, include_inherited, head) ==
    IF ~head.out.ok THEN head
    ELSE class_subclasses(cls, include_inherited, head,
                          func_docs(cls.members, include_inherited, head.slot))

doc_class(cls, include_inherited, nested, slot) ==
    class_members(cls, include_inherited, doc_class_head(cls, nested, slot))

(***************************************************************************)
(* doc_module.  A module is [name, doc, members, all, aliases, version]:   *)
(* members is the sequence of [name, obj] that inspect.getmembers returns, *)
(* all the declared exports (None when __all__ is absent), aliases the     *)
(* names listed in the values of __aliases__ (None when absent); retain is *)
(* the name predicate of _determine_retention_strategy, [kind, names]      *)
(***************************************************************************)

\* the members of the module bound to the name
Bound(mod, name) ==
    SelectSeq(mod.members, LAMBDA m : m.name = name)

\* the names of a sequence of [name, obj]
NamesOf(pairs) == { pairs[i].name : i \in 1..Len(pairs) }

\* _get_targets: the exports, each with the object bound to it, or every
\* member of the module; a declared export the module lacks raises
_get_targets(mod) ==
    IF mod.all = None THEN Return(mod.members)
    ELSE IF \E i \in 1..Len(mod.all[1]) : Bound(mod, mod.all[1][i]) = << >>
    THEN Raise(Exception, "Module is missing declared export(s)")
    ELSE Return([i \in 1..Len(mod.all[1]) |-> Bound(mod, mod.all[1][i])[1]])

\* retain(n), for the strategies of _determine_retention_strategy
retains(retain, n) ==
    CASE retain.kind = "all" -> TRUE
      [] retain.kind = "blacklist" -> n \notin retain.names
      [] retain.kind = "whitelist" -> n \in retain.names
      [] retain.kind = "groups" -> n \in retain.names

\* the names declared by the groups
declared_by(groups) ==
    IF groups = None THEN {}
    ELSE UNION { { groups[1][i].names[j] : j \in 1..Len(groups[1][i].names) } :
                   i \in 1..Len(groups[1]) }

\* mutant of use_obj: without groups every name is used
use_obj_keeps_all(retain, groups, n) ==
    IF groups # None
    THEN retains(retain, n) /\ n \in declared_by(groups)
    ELSE TRUE

\* use_obj of doc_module, lines 199-219
use_obj(retain, groups, n) ==
    IF groups # None
    THEN retains(retain, n) /\ n \in declared_by(groups)
    ELSE retains(retain, n)

\* collect_targets_by_name: a name with several targets is a repeat
repeated(targets) ==
    { targets[i].name : i \in 1..Len(targets) } \cap
    { targets[j].name : j \in { k \in 1..Len(targets) :
                                  \E i \in 1..(k - 1) :
                                     targets[i].name = targets[k].name } }

\* lines 241-243: the targets whose name no alias declaration lists
without_aliases(mod, targets) ==
    IF mod.aliases = None THEN targets
    ELSE SelectSeq(targets, LAMBDA t : t.name \notin mod.aliases[1])

\* lines 244-258: the first name of each object is kept; an unhashable
\* object is skipped
final_targets_of(targets) ==
    SelectSeq(
        [i \in 1..Len(targets) |->
            [name |-> targets[i].name, obj |-> targets[i].obj,
             keep |-> /\ targets[i].obj.hashable
                      /\ \A j \in 1..(i - 1) :
                            ~targets[j].obj.hashable
                            \/ targets[j].obj.id # targets[i].obj.id]],
        LAMBDA t : t.keep)

\* get_target_fun and prepare_targets, lines 276-280 and 302-324: the
\* unprotected names bound to a class or a function, each with the function
\* that documents it; without groups the classes come first
prepare_targets(named_targets, groups) ==
    IF groups # None
    THEN SelectSeq(named_targets,
                   LAMBDA t : _unprotected(t.name)
                              /\ t.obj.kind \in {"function", "class"})
    ELSE SelectSeq(named_targets,
                   LAMBDA t : _unprotected(t.name) /\ t.obj.kind = "class")
         \o SelectSeq(named_targets,
                      LAMBDA t : _unprotected(t.name) /\ t.obj.kind = "function")

\* f(t) of build_doc_block: doc_cls for a class, doc_fun for a function,
\* which documents it under its __name__
doc_target(t, include_inherited, slot) ==
    IF t.obj.kind = "class"
    THEN doc_class(t.obj, include_inherited, FALSE, slot)
    ELSE doc_callable(t.obj, t.obj.name, slot)

\* build_doc_block, lines 272-274, over prepared targets
RECURSIVE build_doc_block(_, _, _)
RECURSIVE build_doc_block_after(_, _, _)
build_doc_block_after(d, prep, include_inherited) ==
    IF ~d.out.ok THEN d
    ELSE then_chunks(d, build_doc_block(prep, include_inherited, d.slot))

build_doc_block(prep, include_inherited, slot) ==
    IF Len(prep) = 0 THEN [out |-> Return(<< >>), slot |-> slot]
    ELSE build_doc_block_after(doc_target(prep[1], include_inherited, slot),
                               Tail(prep), include_inherited)

\* output of lines 268-270 and the footer of lines 286-299 around the chunks
postproc(mod, no_mod_docstr, omit_meta, chunks) ==
    [module |-> mod.name,
     docstring |-> IF mod.doc # None /\ mod.doc # Some("") /\ ~no_mod_docstr
                   THEN mod.doc ELSE None,
     chunks |-> chunks,
     footer |-> IF omit_meta THEN None ELSE mod.version]

\* chunk_groups, line 309: the targets named by a group; None when a name is
\* not a key of final_targets
chunk_group(final_targets, ns) ==
    IF \E j \in 1..Len(ns) : ns[j] \notin NamesOf(final_targets)
    THEN None
    ELSE Some([j \in 1..Len(ns) |->
                 SelectSeq(final_targets, LAMBDA t : t.name = ns[j])[1]])

\* grouped_results, lines 310-311: the chunks of each group in turn
RECURSIVE grouped_results(_, _, _, _)
RECURSIVE grouped_results_after(_, _, _, _, _)
grouped_results_after(g, block, groups, final_targets, include_inherited) ==
    IF ~block.out.ok THEN block
    ELSE then_chunks(
             [out |-> Return(<< [group |-> g, chunks |-> block.out.value] >>),
              slot |-> block.slot],
             grouped_results(groups, final_targets, include_inherited,
                             block.slot))

grouped_results(groups, final_targets, include_inherited, slot) ==
    IF Len(groups) = 0 THEN [out |-> Return(<< >>), slot |-> slot]
    ELSE grouped_results_after(
             groups[1].group,
             build_doc_block(
                 prepare_targets(chunk_group(final_targets, groups[1].names)[1],
                                 Some(groups)),
                 include_inherited, slot),
             Tail(groups), final_targets, include_inherited)

\* lines 312-313: postproc of the chunks of each group
postproc_groups(mod, no_mod_docstr, omit_meta, results) ==
    IF ~results.out.ok THEN results
    ELSE [out |-> Return(
              [i \in 1..Len(results.out.value) |->
                 [group |-> results.out.value[i].group,
                  doc |-> postproc(mod, no_mod_docstr, omit_meta,
                                   results.out.value[i].chunks)]]),
          slot |-> results.slot]

\* line 326: postproc of the chunks
postproc_chunks(mod, no_mod_docstr, omit_meta, block) ==
    IF ~block.out.ok THEN block
    ELSE [out |-> Return(postproc(mod, no_mod_docstr, omit_meta,
                                  block.out.value)),
          slot |-> block.slot]

\* doc_module, lines 301-326, given final_targets
doc_targets(mod, no_mod_docstr, include_inherited, groups, omit_meta, final_targets, slot) ==
    IF groups # None
    THEN IF \E i \in 1..Len(groups[1]) :
               chunk_group(final_targets, groups[1][i].names) = None
         THEN [out |-> Raise(KeyError, "final_targets[n]"), slot |-> slot]
         ELSE postproc_groups(
                  mod, no_mod_docstr, omit_meta,
                  grouped_results(groups[1], final_targets, include_inherited,
                                  slot))
    ELSE postproc_chunks(
             mod, no_mod_docstr, omit_meta,
             build_doc_block(prepare_targets(final_targets, groups),
                             include_inherited, slot))

\* all_targets of line 224
all_targets_of(mod, retain, groups) ==
    SelectSeq(_get_targets(mod).value,
              LAMBDA t : use_obj(retain, groups, t.name))

\* final_targets of lines 238-260
final_targets(mod, retain, groups) ==
    final_targets_of(without_aliases(mod, all_targets_of(mod, retain, groups)))

\* doc_module: the documentation of the module (of each group, with
\* groups), or the exception raised, and the slot of the parser afterwards
doc_module(mod, no_mod_docstr, include_inherited, retain, groups, omit_meta, slot) ==
    IF ~_get_targets(mod).ok
    THEN [out |-> _get_targets(mod), slot |-> slot]
    ELSE IF repeated(all_targets_of(mod, retain, groups)) # {}
    THEN [out |-> Raise(LucidocError, "Repeat target names"), slot |-> slot]
    ELSE doc_targets(
             mod, no_mod_docstr, include_inherited, groups, omit_meta,
             final_targets(mod, retain, groups), slot)

(***************************************************************************)
(* run_lucidoc.  An optional argument is None or Some(v); as in Python an  *)
(* empty string, list or mapping counts as not given.  The groups argument *)
(* is [form, items]: a mapping or a collection of pairs, each item         *)
(* [group, names, single] with single set when the names of the group are  *)
(* one string rather than a collection                                     *)
(***************************************************************************)

\* the truth value of an optional argument
Given(arg) == arg # None /\ Len(arg[1]) > 0

\* _standardize_groups_type, lines 586-594
_standardize_groups_type(groups) ==
    IF groups = None \/ groups[1].items = << >> THEN Return(None)
    ELSE IF groups[1].form \in {"mapping", "pairs"}
    THEN Return(Some(groups[1].items))
    ELSE Raise(TypeError, "Groups specification must be mapping or collection of pairs")

\* the names of a sequence
Elements(names) == { names[i] : i \in 1..Len(names) }

\* mutant of _determine_retention_strategy: the blacklist wins over the
\* other strategies instead of conflicting with them
_determine_retention_strategy_first_wins(whitelist, blacklist, groups) ==
    IF ~Given(whitelist) /\ ~Given(blacklist) /\ groups = None
    THEN Return([kind |-> "all", names |-> {}])
    ELSE IF Given(blacklist)
    THEN Return([kind |-> "blacklist", names |-> Elements(blacklist[1])])
    ELSE IF Given(whitelist)
    THEN Return([kind |-> "whitelist", names |-> Elements(whitelist[1])])
    ELSE IF \E i \in 1..Len(groups[1]) : groups[1][i].single
    THEN Raise(TypeError, "Not a collection")
    ELSE Return([kind |-> "groups", names |-> declared_by(groups)])

\* _determine_retention_strategy, lines 496-517, on standardized groups:
\* the retention predicate, LucidocError for more than one strategy,
\* TypeError for a group whose names are one string
_determine_retention_strategy(whitelist, blacklist, groups) ==
    IF \/ Given(whitelist) /\ (groups # None \/ Given(blacklist))
       \/ Given(blacklist) /\ (Given(whitelist) \/ groups # None)
       \/ groups # None /\ (Given(blacklist) \/ Given(whitelist))
    THEN Raise(LucidocError, "Only one retention strategy may be specified")
    ELSE IF ~Given(whitelist) /\ ~Given(blacklist) /\ groups = None
    THEN Return([kind |-> "all", names |-> {}])
    ELSE IF Given(blacklist)
    THEN Return([kind |-> "blacklist", names |-> Elements(blacklist[1])])
    ELSE IF Given(whitelist)
    THEN Return([kind |-> "whitelist", names |-> Elements(whitelist[1])])
    ELSE IF \E i \in 1..Len(groups[1]) : groups[1][i].single
    THEN Raise(TypeError, "Not a collection")
    ELSE Return([kind |-> "groups", names |-> declared_by(groups)])

\* lines 651-660 of run_lucidoc: the standardized groups and the retention
\* predicate, or the exception raised
checked_options(a) ==
    IF Given(a.outfile) /\ Given(a.outfolder)
    THEN Raise(LucidocError, "Cannot specify both output file and output folder")
    ELSE IF ~_standardize_groups_type(a.groups).ok
    THEN _standardize_groups_type(a.groups)
    ELSE IF ~_determine_retention_strategy(
                 a.whitelist, a.blacklist,
                 _standardize_groups_type(a.groups).value).ok
    THEN _determine_retention_strategy(
             a.whitelist, a.blacklist, _standardize_groups_type(a.groups).value)
    ELSE IF _standardize_groups_type(a.groups).value # None /\ Given(a.outfile)
    THEN Raise(LucidocError, "Cannot use output file with groups")
    ELSE Return([groups |-> _standardize_groups_type(a.groups).value,
                 retain |-> _determine_retention_strategy(
                                a.whitelist, a.blacklist,
                                _standardize_groups_type(a.groups).value).value])

\* the index of the last occurrence of the character c in s, 0 when absent
RECURSIVE rfind(_, _, _)
rfind(s, c, i) ==
    IF i = 0 THEN 0
    ELSE IF SubSeq(s, i, i) = c THEN i
    ELSE rfind(s, c, i - 1)

\* the index of the first character of s after position i that is not a dot
RECURSIVE past_dots(_, _)
past_dots(s, i) ==
    IF i < Len(s) /\ SubSeq(s, i + 1, i + 1) = "." THEN past_dots(s, i + 1)
    ELSE i + 1

\* os.path.splitext: the extension starts at the last dot of the last path
\* component, leading dots of the component apart
splitext(path) ==
    IF rfind(path, ".", Len(path)) > past_dots(path, rfind(path, "/", Len(path)))
    THEN << SubSeq(path, 1, rfind(path, ".", Len(path)) - 1),
            SubSeq(path, rfind(path, ".", Len(path)), Len(path)) >>
    ELSE << path, "" >>

\* lines 689-696: the file name of a group, None for an extension other
\* than .md
group_filename(g) ==
    IF splitext(g)[2] # ""
    THEN IF splitext(g)[2] # ".md" THEN None ELSE Some(g)
    ELSE Some(splitext(g)[1] \o ".md")

\* _write_docs: the files written so far and their contents
_write_docs(files, fp, doc) == Append(files, [fp |-> fp, doc |-> doc])

(***************************************************************************)
(* The packages given to run_lucidoc: the module of                        *)
(* tests/test_protected_members.py (classes with methods, a static method  *)
(* and a property, two functions), extended by a class with inherited      *)
(* members and a nested class.  A key of Protected is defined under a      *)
(* name with a leading underscore                                          *)
(***************************************************************************)

GoodDoc == "Computes a value.\n\n:param int x: the input\n:return int: doubled value"

ClassDoc == "A container.\n\n:param int x: the input\n:raise ValueError: bad"

\* a docstring the parser rejects
BadDoc == ":param int x: the input\n:unknown foo: bar"

\* a class docstring with a return tag
ReturnDoc == "A container.\n\n:return int: a"

\* the name a key is defined under
Name(k, protected) == IF k \in protected THEN "_" \o k ELSE k

\* the docstring of the object of key k in the variant docs
DocOf(k, class, docs) ==
    CASE docs = "none" -> None
      [] docs = "bad" /\ k = "gun" -> Some(BadDoc)
      [] docs = "bad" /\ k = "stop" -> Some(BadDoc)
      [] docs = "return" /\ k = "Beta" -> Some(ReturnDoc)
      [] OTHER -> IF class THEN Some(ClassDoc) ELSE Some(GoodDoc)

Callable(id, kind, k, protected, docs) ==
    [id |-> id, kind |-> kind, name |-> Name(k, protected),
     doc |-> DocOf(k, FALSE, docs), members |-> << >>, hashable |-> TRUE]

Class(id, k, protected, docs, members) ==
    [id |-> id, kind |-> "class", name |-> Name(k, protected),
     doc |-> DocOf(k, TRUE, docs), members |-> members, hashable |-> TRUE]

\* a value that is neither class nor function
Value(id, name, hashable) ==
    [id |-> id, kind |-> "other", name |-> name, doc |-> None,
     members |-> << >>, hashable |-> hashable]

Entry(key, obj, inherited) == [key |-> key, obj |-> obj, inherited |-> inherited]

\* the entries, each bound to the name of its key
bound_names(entries, protected) ==
    [i \in 1..Len(entries) |->
        [name |-> Name(entries[i].key, protected), obj |-> entries[i].obj,
         inherited |-> entries[i].inherited]]

\* inspect.getmembers: the entries [key, obj, inherited] under their names,
\* sorted by name; uppers and lowers are sorted entries whose keys start
\* with an upper case and a lower case letter, dunders entries named with
\* two leading underscores.  In the order of the characters an upper case
\* letter comes before the underscore, which comes before a lower case
\* letter
getmembers(uppers, dunders, lowers, protected) ==
    bound_names(SelectSeq(uppers, LAMBDA e : e.key \notin protected)
                \o SelectSeq(uppers, LAMBDA e : e.key \in protected)
                \o dunders
                \o SelectSeq(lowers, LAMBDA e : e.key \in protected)
                \o SelectSeq(lowers, LAMBDA e : e.key \notin protected),
                protected)

Alpha(p, docs) ==
    Class(1, "Alpha", p, docs,
          getmembers(<< >>, << >>,
                     << Entry("run", Callable(11, "function", "run", p, docs), FALSE),
                        Entry("stop", Callable(12, "function", "stop", p, docs), FALSE) >>,
                     p))

Beta(p, docs) == Class(2, "Beta", p, docs, << >>)

Gamma(p, docs) ==
    Class(3, "Gamma", p, docs,
          getmembers(<< >>, << >>,
                     << Entry("fA", Callable(31, "function", "fA", p, docs), FALSE),
                        Entry("prop", Callable(32, "property", "prop", p, docs), FALSE) >>,
                     p))

Inner(p, docs) ==
    Class(41, "Inner", p, docs,
          getmembers(<< >>, << >>,
                     << Entry("deep", Callable(411, "function", "deep", p, docs), FALSE) >>,
                     p))

\* a class with a base class: base and size are inherited from it
Kid(p, docs) ==
    Class(4, "Kid", p, docs,
          getmembers(<< Entry("Inner", Inner(p, docs), FALSE) >>,
                     << Entry("__doc__", Value(49, "__doc__", TRUE), FALSE) >>,
                     << Entry("base", Callable(42, "function", "base", p, docs), TRUE),
                        Entry("limit", Value(43, "limit", TRUE), FALSE),
                        Entry("own", Callable(44, "method", "own", p, docs), FALSE),
                        Entry("size", Callable(45, "property", "size", p, docs), TRUE) >>,
                     p))

\* the members of the module; with rebound, the name also is bound to the
\* function fun as well
ModuleMembers(p, docs, rebound) ==
    getmembers(<< Entry("Alpha", Alpha(p, docs), FALSE),
                  Entry("Beta", Beta(p, docs), FALSE),
                  Entry("Gamma", Gamma(p, docs), FALSE),
                  Entry("Kid", Kid(p, docs), FALSE) >>,
               << Entry("__author__", Value(7, "__author__", TRUE), FALSE),
                  Entry("__builtins__", Value(8, "__builtins__", FALSE), FALSE) >>,
               IF rebound
               THEN << Entry("also", Callable(5, "function", "fun", p, docs), FALSE),
                       Entry("fun", Callable(5, "function", "fun", p, docs), FALSE),
                       Entry("gun", Callable(6, "function", "gun", p, docs), FALSE) >>
               ELSE << Entry("fun", Callable(5, "function", "fun", p, docs), FALSE),
                       Entry("gun", Callable(6, "function", "gun", p, docs), FALSE) >>,
               p)

\* the module of a package: protected keys, docstring variant, declared
\* exports, names listed in __aliases__, and whether also is bound
Module(p, docs, all, aliases, rebound) ==
    [name |-> "pkg", doc |-> IF docs = "none" THEN None ELSE Some("A package."),
     members |-> ModuleMembers(p, docs, rebound),
     all |-> all, aliases |-> aliases,
     version |-> IF docs = "none" THEN None ELSE Some("0.1")]

\* the keys of the classes and functions of the module and of their members
Keys ==
    { "Alpha", "Beta", "Gamma", "Kid", "fun", "gun", "run", "stop", "fA",
      "prop", "Inner", "deep", "base", "own", "size" }

\* the sets of protected keys tried: none, each key alone, and some pairs
ProtectedSets ==
    { {} } \cup { { k } : k \in Keys }
    \cup { { "Alpha", "run" }, { "fun", "gun" }, { "Inner", "size" } }

DocVariants == { "good", "none", "bad", "return" }

\* the call run_lucidoc(pkg, ...) on a package that imports as mod
\* (status ok), is not found (missing) or raises during import (broken)
Call(status, mod, outfile, outfolder, whitelist, blacklist, groups, include_inherited) ==
    [kind |-> "run", status |-> status, mod |-> mod,
     outfile |-> outfile, outfolder |-> outfolder,
     whitelist |-> whitelist, blacklist |-> blacklist, groups |-> groups,
     no_mod_docstr |-> FALSE, include_inherited |-> include_inherited,
     omit_meta |-> FALSE]

Group(g, names, single) == [group |-> g, names |-> names, single |-> single]

\* groups arguments: none, an empty mapping, a mapping, a collection of
\* pairs, a mapping from group names to single names, a group naming a
\* target the module lacks, and a value that is no collection
GroupsArgs ==
    { None,
      Some([form |-> "mapping", items |-> << >>]),
      Some([form |-> "mapping",
            items |-> << Group("api", << "Alpha", "gun" >>, FALSE),
                         Group("notes.txt", << "fun" >>, FALSE),
                         Group("extra.md", << "Beta" >>, FALSE) >>]),
      Some([form |-> "pairs",
            items |-> << Group("api", << "Kid" >>, FALSE) >>]),
      Some([form |-> "mapping",
            items |-> << Group("api", << "Alpha" >>, TRUE) >>]),
      Some([form |-> "pairs",
            items |-> << Group("api", << "Alpha", "zeta" >>, FALSE) >>]),
      Some([form |-> "other", items |-> << Group("api", << >>, TRUE) >>]) }

WhitelistArgs ==
    { None, Some(<< >>), Some(<< "Alpha" >>), Some(<< "gun", "Kid", "zeta" >>),
      Some(<< "also", "fun" >>), Some(<< "_fun", "Beta" >>) }

BlacklistArgs ==
    { None, Some(<< "Beta", "fun" >>), Some(<< "also" >>), Some(<< "_fun" >>) }

AllArgs ==
    { None, Some(<< "Alpha", "fun" >>), Some(<< "also" >>),
      Some(<< "gun", "Beta", "__author__" >>), Some(<< "fun", "fun" >>),
      Some(<< "Alpha", "zeta" >>), Some(<< "Kid", "_fun" >>),
      Some(<< "_fun", "also" >>) }

\* the calls with every combination of the options that can conflict
OptionCalls ==
    { Call(status, Module({}, "good", None, None, FALSE), outfile, outfolder,
           whitelist, blacklist, groups, FALSE) :
        status \in { "ok", "missing", "broken" },
        outfile \in { None, Some(""), Some("api.md") },
        outfolder \in { None, Some("docs") },
        whitelist \in { None, Some(<< >>), Some(<< "Alpha" >>) },
        blacklist \in { None, Some(<< "Beta", "fun" >>) },
        groups \in GroupsArgs }

\* the selections <<whitelist, blacklist, groups>> with at most one strategy
Selections ==
    { << w, None, None >> : w \in WhitelistArgs }
    \cup { << None, b, None >> : b \in BlacklistArgs }
    \cup { << None, None, g >> : g \in GroupsArgs }

\* the calls with one selection of targets on modules with and without
\* declared exports, alias declarations and a second name of a function
SelectionCalls ==
    { Call("ok", Module(p, "good", all, aliases, rebound), None, None,
           sel[1], sel[2], sel[3], FALSE) :
        p \in { {}, { "fun" } },
        all \in AllArgs,
        aliases \in { None, Some({ "gun" }) },
        rebound \in BOOLEAN,
        sel \in Selections }

\* the calls on the module with some members protected, with each variant
\* of the docstrings
ProtectionCalls ==
    { Call("ok", Module(p, docs, None, None, FALSE), outfile, None, None, None,
           None, include_inherited) :
        p \in ProtectedSets,
        docs \in DocVariants,
        outfile \in { None, Some("api.md") },
        include_inherited \in BOOLEAN }

\* two groups, the second of which names the function gun
OrderedGroups ==
    Some([form |-> "pairs",
          items |-> << Group("first", << "Beta" >>, FALSE),
                       Group("second.md", << "gun" >>, FALSE) >>])

\* the calls with the two groups, with each variant of the docstrings: in
\* the variant bad the docstring of gun fails to parse after the docstrings
\* of the first group have been parsed and rendered
GroupCalls ==
    { Call("ok", Module({}, docs, None, None, FALSE), None, outfolder, None,
           None, OrderedGroups, FALSE) :
        docs \in DocVariants,
        outfolder \in { None, Some("docs") } }

RunCalls == OptionCalls \cup SelectionCalls \cup ProtectionCalls \cup GroupCalls

(***************************************************************************)
(* run_lucidoc as a process: ret holds its position (pc), whether the      *)
(* import of the package was attempted, the files written, what was        *)
(* printed and the exception that left the call; last_seen is the slot of  *)
(* the parser of PARSERS, which the process shares with every other user   *)
(* of the module                                                           *)
(***************************************************************************)

Running(pc, attempted, groups, retain, doc_res, todo, files, printed, out) ==
    [op |-> "run_lucidoc", pc |-> pc, import_attempted |-> attempted,
     groups |-> groups, retain |-> retain, doc_res |-> doc_res, todo |-> todo,
     files |-> files, printed |-> printed, out |-> out]

\* the process after the exception e left run_lucidoc
raised(r, e) == [r EXCEPT !.pc = "raised", !.out = Some(e)]

InitRun ==
    /\ input \in RunCalls
    /\ last_seen = None
    /\ ret = Running("start", FALSE, None, [kind |-> "all", names |-> {}],
                     None, << >>, << >>, None, None)

\* lines 651-660: the checks of the options
check_options ==
    /\ ret.pc = "start"
    /\ ret' = IF checked_options(input).ok
              THEN [ret EXCEPT !.pc = "checked",
                               !.groups = checked_options(input).value.groups,
                               !.retain = checked_options(input).value.retain]
              ELSE raised(ret, checked_options(input))
    /\ UNCHANGED << input, last_seen >>

\* lines 662-671: pydoc.safeimport(pkg)
safeimport ==
    /\ ret.pc = "checked"
    /\ ret' = CASE input.status = "ok" ->
                     [ret EXCEPT !.pc = "imported", !.import_attempted = TRUE]
                [] input.status = "missing" ->
                     raised([ret EXCEPT !.import_attempted = TRUE],
                            Raise(LucidocError, "ERROR -- Documentation target not found"))
                [] input.status = "broken" ->
                     raised([ret EXCEPT !.import_attempted = TRUE],
                            Raise(ErrorDuringImport, "problem in pkg"))
    /\ UNCHANGED << input, last_seen >>

\* mutant of documented: the output file is opened for writing before the
\* documentation is generated, so it is left empty when doc_module raises
documented_after_open(r, d) ==
    IF d.out.ok
    THEN [r EXCEPT !.pc = "documented", !.doc_res = Some(d.out.value),
                   !.todo = IF r.groups = None THEN << >> ELSE r.groups[1]]
    ELSE raised([r EXCEPT !.files = Append(r.files, [fp |-> "api.md", doc |-> ""])],
                d.out)

\* the process after doc_module with outcome d
documented(r, d) ==
    IF d.out.ok
    THEN [r EXCEPT !.pc = "documented", !.doc_res = Some(d.out.value),
                   !.todo = IF r.groups = None THEN << >> ELSE r.groups[1]]
    ELSE raised(r, d.out)

\* doc_module with the arguments of lines 675-678
module_docs(a, r, slot) ==
    doc_module(a.mod, a.no_mod_docstr, a.include_inherited, r.retain, r.groups,
               a.omit_meta, slot)

\* lines 673-678: the documentation of the package is generated
document ==
    /\ ret.pc = "imported"
    /\ ret' = documented(ret, module_docs(input, ret, last_seen))
    /\ last_seen' = module_docs(input, ret, last_seen).slot
    /\ UNCHANGED input

\* doc_res[g]
group_doc(doc_res, g) ==
    SelectSeq(doc_res, LAMBDA d : d.group = g)[1].doc

\* os.path.join(outfolder, fn), with the working directory as . when no
\* folder is given
outpath(outfolder, fn) ==
    (IF Given(outfolder) THEN outfolder[1] ELSE ".") \o "/" \o fn

\* lines 683-706: the file of the next group is written, unless the
\* group name has an extension other than .md
write_group ==
    /\ ret.pc = "documented"
    /\ ret.groups # None
    /\ ret.todo # << >>
    /\ ret' = [ret EXCEPT
                 !.todo = Tail(ret.todo),
                 !.pc = IF Tail(ret.todo) = << >> THEN "done" ELSE "documented",
                 !.files = IF group_filename(ret.todo[1].group) = None
                           THEN ret.files
                           ELSE _write_docs(
                                    ret.files,
                                    outpath(input.outfolder,
                                            group_filename(ret.todo[1].group)[1]),
                                    group_doc(ret.doc_res[1], ret.todo[1].group))]
    /\ UNCHANGED << input, last_seen >>

\* lines 707-709: the documentation is written to outfile
write_outfile ==
    /\ ret.pc = "documented"
    /\ ret.groups = None
    /\ Given(input.outfile)
    /\ ret' = [ret EXCEPT !.pc = "done",
                          !.files = _write_docs(ret.files, input.outfile[1],
                                                ret.doc_res[1])]
    /\ UNCHANGED << input, last_seen >>

\* lines 710-711: the documentation is printed
print_docs ==
    /\ ret.pc = "documented"
    /\ ret.groups = None
    /\ ~Given(input.outfile)
    /\ ret' = [ret EXCEPT !.pc = "done", !.printed = ret.doc_res]
    /\ UNCHANGED << input, last_seen >>

NextRun ==
    \/ check_options
    \/ safeimport
    \/ document
    \/ write_group
    \/ write_outfile
    \/ print_docs

SpecRun == InitRun /\ [][NextRun]_vars

(***************************************************************************)
(* Claims about run_lucidoc                                                *)
(***************************************************************************)

\* the groups argument counts as given
GroupsGiven(groups) == groups # None /\ groups[1].items # << >>

\* the options of the call conflict: outfile with outfolder, groups with
\* outfile, or more than one of whitelist, blacklist and groups
Conflict(a) ==
    \/ Given(a.outfile) /\ Given(a.outfolder)
    \/ GroupsGiven(a.groups) /\ Given(a.outfile)
    \/ Given(a.whitelist) /\ Given(a.blacklist)
    \/ Given(a.whitelist) /\ GroupsGiven(a.groups)
    \/ Given(a.blacklist) /\ GroupsGiven(a.groups)

\* the groups argument is a mapping or a collection of pairs whose names
\* are collections
WellFormed(groups) ==
    groups = None
    \/ /\ groups[1].form \in {"mapping", "pairs"}
       /\ \A i \in 1..Len(groups[1].items) : ~groups[1].items[i].single

\* the options were checked and the call was left by an exception of one of
\* the kinds, before any import, write or print
RaisedEarly(kinds) ==
    /\ ret.pc = "raised"
    /\ ret.out[1].error \in kinds
    /\ ~ret.import_attempted
    /\ ret.files = << >>
    /\ ret.printed = None

\* C13 as stated: a call whose options conflict raises LucidocError before
\* the package is imported and before any file is written
C13_Original ==
    (Conflict(input) /\ ret.pc # "start") => RaisedEarly({LucidocError})

\* C13: a call whose options conflict raises before the package is imported
\* and before any file is written; the exception is LucidocError when the
\* groups argument is a mapping or a collection of pairs whose names are
\* collections, and LucidocError or TypeError otherwise
C13_ConflictsRaiseEarly ==
    (Conflict(input) /\ ret.pc # "start") =>
        /\ RaisedEarly({LucidocError, TypeError})
        /\ WellFormed(input.groups) => ret.out[1].error = LucidocError

\* C13 witness: a call with groups and outfile, on a package that could be
\* imported, was left by LucidocError
C13_Witness ==
    /\ GroupsGiven(input.groups) /\ Given(input.outfile)
    /\ ~Given(input.outfolder) /\ ~Given(input.whitelist)
    /\ ~Given(input.blacklist)
    /\ input.status = "ok"
    /\ RaisedEarly({LucidocError})

(***************************************************************************)
(* Claims about the selection of targets                                   *)
(***************************************************************************)

\* doc_module returned the documentation of the module, without groups
Documented ==
    /\ ret.pc \in {"documented", "done"}
    /\ ret.groups = None

\* the documentation has the chunk of the object: a class or a function
\* is documented under its __name__
HasChunk(doc, o) ==
    \E i \in 1..Len(doc.chunks) :
        /\ doc.chunks[i].name = o.name
        /\ doc.chunks[i].section = IF o.kind = "class" THEN "class" ELSE "function"

\* the classes and functions bound in the module
TopLevel(mod) ==
    { mod.members[i] : i \in { j \in 1..Len(mod.members) :
                                 mod.members[j].obj.kind \in {"class", "function"} } }

\* the names available as targets: the exports when declared, every name
\* bound in the module otherwise
Available(mod) ==
    IF mod.all = None THEN NamesOf(mod.members) ELSE Elements(mod.all[1])

\* the name passes the whitelist and the blacklist of the call
Passes(a, n) ==
    /\ Given(a.whitelist) => n \in Elements(a.whitelist[1])
    /\ Given(a.blacklist) => n \notin Elements(a.blacklist[1])

\* the names bound to the object in the module
NamesFor(mod, o) ==
    { m.name : m \in { x \in Elements(mod.members) : x.obj.id = o.id } }

\* the call selects targets by declared exports, a whitelist or a blacklist
Selecting(a) ==
    a.mod.all # None \/ Given(a.whitelist) \/ Given(a.blacklist)

\* C14 as stated, read for unprotected names and with an object taken for
\* the names bound to it: every class or function with an available name
\* that passes the lists is documented, and no class or function is
\* documented all of whose names are unavailable or fail the lists
C14_Original ==
    (Documented /\ Selecting(input)) =>
        \A m \in TopLevel(input.mod) :
            /\ (/\ _unprotected(m.name)
                /\ m.name \in Available(input.mod)
                /\ Passes(input, m.name))
                  => HasChunk(ret.doc_res[1], m.obj)
            /\ (\A n \in NamesFor(input.mod, m.obj) :
                    n \notin Available(input.mod) \/ ~Passes(input, n))
                  => ~HasChunk(ret.doc_res[1], m.obj)

\* the targets selected by name: available, passing the lists, and not
\* listed in __aliases__, in the order of the targets
SelectedTargets(a) ==
    SelectSeq(_get_targets(a.mod).value,
              LAMBDA t : /\ Passes(a, t.name)
                         /\ a.mod.aliases = None \/ t.name \notin a.mod.aliases[1])

\* the first selected name bound to the object is unprotected
FirstNameUnprotected(sel, o) ==
    \E i \in 1..Len(sel) :
        /\ sel[i].obj.id = o.id
        /\ \A j \in 1..(i - 1) : sel[j].obj.id # o.id
        /\ _unprotected(sel[i].name)

\* C14: when doc_module returns without groups, a class or function of the
\* module is documented exactly if some selected name (an export when
\* exports are declared, passing the whitelist or blacklist, and not listed
\* in __aliases__) is bound to it and the first such name is unprotected;
\* no object without a selected name is documented
C14_Selection ==
    Documented =>
        \A m \in TopLevel(input.mod) :
            HasChunk(ret.doc_res[1], m.obj)
                <=> FirstNameUnprotected(SelectedTargets(input), m.obj)

\* C14 witness: the module declares exports, a whitelist is given, and the
\* documentation holds a whitelisted export and lacks another class
C14_Witness ==
    /\ Documented
    /\ input.mod.all # None
    /\ Given(input.whitelist)
    /\ \E m \in TopLevel(input.mod) :
          /\ m.name \in Elements(input.whitelist[1])
          /\ HasChunk(ret.doc_res[1], m.obj)
    /\ \E m \in TopLevel(input.mod) : ~HasChunk(ret.doc_res[1], m.obj)

(***************************************************************************)
(* Claims about protected members                                          *)
(***************************************************************************)

\* the documentation texts doc_module returned: one, or one per group
DocsOf(r) ==
    IF r.groups = None THEN { r.doc_res[1] }
    ELSE { r.doc_res[1][i].doc : i \in 1..Len(r.doc_res[1]) }

\* the names the documentation has a chunk for
ChunkNames(doc) == { doc.chunks[i].name : i \in 1..Len(doc.chunks) }

\* every name bound in the module is the __name__ of its object, and the
\* call selects nothing: no exports, lists, groups or alias declarations
Plain(a) ==
    /\ \A i \in 1..Len(a.mod.members) :
          a.mod.members[i].name = a.mod.members[i].obj.name
    /\ a.mod.all = None /\ a.mod.aliases = None
    /\ ~Given(a.whitelist) /\ ~Given(a.blacklist) /\ ~GroupsGiven(a.groups)

\* the names of the unprotected members of a class that are methods or
\* properties, with the inherited methods if asked for, and of its
\* unprotected nested classes and their members in turn
RECURSIVE MemberNames(_, _)
MemberNames(cls, with_inherited) ==
    { m.name : m \in { x \in Elements(cls.members) :
                         /\ _unprotected(x.name)
                         /\ x.obj.kind \in {"function", "method", "property"}
                         /\ with_inherited \/ x.obj.kind = "property"
                            \/ ~x.inherited } }
    \cup UNION { { m.name } \cup MemberNames(m.obj, with_inherited) :
                 m \in { x \in Elements(cls.members) :
                           _unprotected(x.name) /\ x.obj.kind = "class" } }

\* the names of the unprotected classes and functions of the module and of
\* the unprotected members of its unprotected classes
UnprotectedNames(mod, with_inherited) ==
    { m.name : m \in { x \in TopLevel(mod) : _unprotected(x.name) } }
    \cup UNION { MemberNames(m.obj, with_inherited) :
                 m \in { x \in TopLevel(mod) :
                           _unprotected(x.name) /\ x.obj.kind = "class" } }

Called == ret.op # "none"

\* the slot holds a result for the text ds
SlotHas(slot, ds) == slot # None /\ slot[1].doc = ds

\* C16: the slot is empty or holds one result, the result of parsing the
\* text of its doc field; it is empty only while no call has succeeded;
\* after a call that parsed successfully it holds the result of that call;
\* a call is served from the slot exactly if its argument equals the doc of
\* the slot, a call served or failed leaves the slot as it was, and a
\* successful parse puts its own result in the place of the slot's
C16_OneSlot ==
    /\ [](/\ last_seen = None \/ last_seen = Some(_parse(last_seen[1].doc).value)
          /\ last_seen # None => _parse(last_seen[1].doc).ok
          /\ (last_seen = None /\ Called) => ~ret.out.ok
          /\ (Called /\ ret.out.ok) => SlotHas(last_seen, ret.ds))
    /\ [][ /\ ret'.hit <=> SlotHas(last_seen, ret'.ds)
           /\ (ret'.hit \/ ~ret'.out.ok) => last_seen' = last_seen
           /\ (~ret'.hit /\ ret'.out.ok) =>
                 /\ last_seen' = Some(_parse(ret'.ds).value)
                 /\ last_seen'[1].doc = ret'.ds
                 /\ last_seen' # last_seen ]_vars

\* C16 witness: a call for a text other than the empty one missed the slot,
\* parsed, and the slot holds the result for its text
C16_Witness ==
    /\ Called
    /\ ~ret.hit
    /\ ret.out.ok
    /\ ret.ds # ""
    /\ SlotHas(last_seen, ret.ds)
    /\ last_seen[1].params # << >>

(***************************************************************************)
(* Two callers of one parser, the parser of PARSERS that get_parser hands  *)
(* to every caller.  A call is the steps of lines 100-127 and 227-229: the *)
(* check of the slot (_cached), on a hit the read of the slot, on a miss   *)
(* the parse with its write of the slot (line 227) and the read of the     *)
(* slot for the value returned (line 229).  ret holds the position of each *)
(* caller; with input.serialized the callers take turns call by call,      *)
(* without it their steps interleave                                       *)
(***************************************************************************)

Callers == { "a", "b" }

\* the docstrings of the callers: three that parse, two of them of the
\* same length, and one that does not
SharedDocs == { "Head.", "Tail.", ":param int x: c", ":param x" }

\* the fields asked for: the whole result or one field
SharedNames == { None, Some("desc"), Some("params") }

Idle == [pc |-> "idle", ds |-> "", name |-> None, out |-> None, from |-> None]

InitShared ==
    /\ input \in { [kind |-> "callers", serialized |-> s] : s \in BOOLEAN }
    /\ last_seen = None
    /\ ret = [op |-> "shared", callers |-> [c \in Callers |-> Idle]]

\* the caller c is at position pc
At(c, pc) == ret.callers[c].pc = pc

\* the position and the fields of caller c change
Moves(c, to) ==
    ret' = [ret EXCEPT !.callers[c] = to]

\* a caller begins a call; serialized callers wait for the call of the
\* other to end
call(c, ds, name) ==
    /\ At(c, "idle") \/ At(c, "done")
    /\ input.serialized =>
          \A o \in Callers \ {c} : At(o, "idle") \/ At(o, "done")
    /\ Moves(c, [pc |-> "check", ds |-> ds, name |-> name, out |-> None,
                 from |-> None])
    /\ UNCHANGED << input, last_seen >>

\* self._cached(ds), lines 133-134
check(c) ==
    /\ At(c, "check")
    /\ Moves(c, [ret.callers[c] EXCEPT
                   !.pc = IF _cached(last_seen, ret.callers[c].ds)
                          THEN "read" ELSE "parse"])
    /\ UNCHANGED << input, last_seen >>

\* the value returned from the slot as it is now, and the text the result
\* in the slot was parsed from
slot_value(caller, slot) ==
    [caller EXCEPT !.pc = "done",
                   !.out = Some(Return(project(slot[1], caller.name))),
                   !.from = Some(slot[1].doc)]

\* the hit of lines 101 and 126: self._last_seen is read
read(c) ==
    /\ At(c, "read")
    /\ Moves(c, slot_value(ret.callers[c], last_seen))
    /\ UNCHANGED << input, last_seen >>

\* self._parse(ds, name) up to line 227: the exception leaves the call, the
\* result is written to the slot
parse(c) ==
    /\ At(c, "parse")
    /\ last_seen' = stored(last_seen, _parse(ret.callers[c].ds))
    /\ Moves(c, IF _parse(ret.callers[c].ds).ok
                THEN [ret.callers[c] EXCEPT !.pc = "fetch"]
                ELSE [ret.callers[c] EXCEPT
                        !.pc = "done",
                        !.out = Some(_parse(ret.callers[c].ds))])
    /\ UNCHANGED input

\* line 229: self._last_seen is read for the value returned
fetch(c) ==
    /\ At(c, "fetch")
    /\ Moves(c, slot_value(ret.callers[c], last_seen))
    /\ UNCHANGED << input, last_seen >>

NextShared ==
    \/ \E c \in Callers, ds \in SharedDocs, name \in SharedNames :
          call(c, ds, name)
    \/ \E c \in Callers : check(c)
    \/ \E c \in Callers : read(c)
    \/ \E c \in Callers : parse(c)
    \/ \E c \in Callers : fetch(c)

SpecShared == InitShared /\ [][NextShared]_vars

\* the caller has been handed a value
Handed(c) ==
    At(c, "done") /\ ret.callers[c].out # None /\ ret.callers[c].out[1].ok

\* the value handed to the caller comes from a result for its own text, and
\* is what the parse of that text gives
FromOwnText(c) ==
    /\ ret.callers[c].from = Some(ret.callers[c].ds)
    /\ ret.callers[c].out[1]
          = Return(project(_parse(ret.callers[c].ds).value, ret.callers[c].name))

\* C17: when the calls on the shared parser are serialized, every value
\* handed to a caller comes from a result whose doc is the caller's text;
\* when the steps interleave a caller can be handed a value computed from
\* the text of the other (the witness)
C17_SerializedSafe ==
    input.serialized => \A c \in Callers : Handed(c) => FromOwnText(c)

\* C17 witness: with interleaved steps a caller that asked for a field of
\* its text was handed the field of a result parsed from the other's text
C17_Witness ==
    /\ ~input.serialized
    /\ \E c \in Callers :
          /\ Handed(c)
          /\ ret.callers[c].name # None
          /\ ret.callers[c].from # Some(ret.callers[c].ds)
          /\ ~FromOwnText(c)

(***************************************************************************)
(* Claims about the assembly of the description and of the tags            *)
(***************************************************************************)

\* the line is blank, or begins with a colon without being the marker of
\* the example section
EndsHead(l) ==
    Strip(l) = "" \/ (StartsWith(l, ":") /\ ~StartsWith(l, RST_EXAMPLE_TAG))

\* the index of the first line that is blank or starts a tag, one past the
\* last line when there is none: the head lines are the lines before it
HeadStop(ls) ==
    IF \E i \in 1..Len(ls) : EndsHead(ls[i])
    THEN CHOOSE i \in 1..Len(ls) :
            EndsHead(ls[i]) /\ \A j \in 1..(i - 1) : ~EndsHead(ls[j])
    ELSE Len(ls) + 1

\* the index of the first line from h on that begins with a colon, one past
\* the last line when there is none
DetailStop(ls, h) ==
    IF \E i \in h..Len(ls) : StartsWith(ls[i], ":")
    THEN CHOOSE i \in h..Len(ls) :
            StartsWith(ls[i], ":") /\ \A j \in h..(i - 1) : ~StartsWith(ls[j], ":")
    ELSE Len(ls) + 1

\* the head lines, each stripped, joined with single spaces
Headline(ls, h) == Join([i \in 1..(h - 1) |-> Strip(ls[i])], " ")

\* the lines between the head and the first line that begins with a colon
\* that are not blank
DetailLines(ls, h) ==
    SelectSeq(SubSeq(ls, h, DetailStop(ls, h) - 1), LAMBDA l : Strip(l) # "")

\* the description assembled from the headline and the detail lines
Assembled(headline, detail) ==
    IF detail = << >> THEN headline
    ELSE IF headline = "" THEN Join(detail, "\n")
    ELSE headline \o "\n\n" \o Join(detail, "\n")

\* the description of a result for the lines ls is the assembly of their
\* headline and detail lines; without head lines it does not begin with a
\* blank line
DescriptionOf(ls, h, desc) ==
    /\ desc = Assembled(Headline(ls, h), DetailLines(ls, h))
    /\ h = 1 => ~StartsWith(desc, "\n")

\* C18: the description of every parsed docstring is its headline (the
\* lines before the first blank or tag-start line, stripped and joined with
\* single spaces), followed when there are detail lines by a blank line and
\* the non-blank detail lines, one per line; a docstring without head lines
\* does not fail for that, and its description does not begin with a blank
\* line
C18_Description ==
    Parsed =>
        /\ ret.out.ok =>
              DescriptionOf(Split(ret.ds, linesep),
                            HeadStop(Split(ret.ds, linesep)),
                            ret.out.value.desc)
        /\ (HeadStop(Split(ret.ds, linesep)) = 1 /\ NoColonLine(ret.ds))
              => ret.out.ok

\* C18 witness: a docstring that begins with a blank line, so without head
\* lines, and has detail lines has been parsed, and its description is the
\* detail lines
C18_Witness ==
    /\ Parsed
    /\ ret.out.ok
    /\ HeadStop(Split(ret.ds, linesep)) = 1
    /\ DetailLines(Split(ret.ds, linesep), 1) # << >>
    /\ ret.out.value.desc = Join(DetailLines(Split(ret.ds, linesep), 1), "\n")

\* the index of the first line of the tag region: the first line after the
\* head that begins with a colon, when it starts a tag; 0 without region
RegionStart(ls) ==
    IF /\ DetailStop(ls, HeadStop(ls)) <= Len(ls)
       /\ ~StartsWith(ls[DetailStop(ls, HeadStop(ls))], RST_EXAMPLE_TAG)
    THEN DetailStop(ls, HeadStop(ls))
    ELSE 0

\* the index of the first blank line from lo on, one past the last line
\* when there is none; sl are the lines, each stripped
RegionStop(sl, lo) ==
    IF \E i \in lo..Len(sl) : sl[i] = ""
    THEN CHOOSE i \in lo..Len(sl) :
            sl[i] = "" /\ \A j \in lo..(i - 1) : sl[j] # ""
    ELSE Len(sl) + 1

\* the stripped line begins with a colon and is not the marker of the
\* example section: it starts a tag in the tag region
StartsTag(l) == StartsWith(l, ":") /\ ~StartsWith(l, RST_EXAMPLE_TAG)

\* the indexes, in order, of the lines of the tag region lo..(hi - 1) that
\* start a tag with the keyword
Declarations(sl, lo, hi, keyword) ==
    SelectSeq([k \in 1..(hi - lo) |-> lo + k - 1],
              LAMBDA i : StartsTag(sl[i]) /\ StartsWith(sl[i], keyword))

\* the index of the first line after i that starts a tag, hi when the
\* region has none
NextStart(sl, hi, i) ==
    IF \E j \in (i + 1)..(hi - 1) : StartsTag(sl[j])
    THEN CHOOSE j \in (i + 1)..(hi - 1) :
            StartsTag(sl[j]) /\ \A k \in (i + 1)..(j - 1) : ~StartsTag(sl[k])
    ELSE hi

\* the continuation lines of the declaration at index i: the stripped lines
\* after it up to the next line that starts a tag or the end of the region
Continuation(sl, hi, i) == SubSeq(sl, i + 1, NextStart(sl, hi, i) - 1)

\* the text after the last colon of the line
AfterLastColon(l) == Split(l, ":")[Len(Split(l, ":"))]

\* the descriptions of the tags are those of the declarations at the
\* indexes, each followed by its continuation lines joined with sep
Continued(tags, sl, hi, indexes, sep) ==
    /\ Len(tags) = Len(indexes)
    /\ \A k \in 1..Len(tags) :
          tags[k].description
              = AfterLastColon(sl[indexes[k]])
                \o Join(Continuation(sl, hi, indexes[k]), sep)

\* the tags of the result are the declarations of the region lo..(hi - 1),
\* in order, each with its continuation lines
RegionContinued(v, sl, lo, hi, sep) ==
    /\ Continued(v.params, sl, hi, Declarations(sl, lo, hi, ":param"), sep)
    /\ Continued(v.returns, sl, hi, Declarations(sl, lo, hi, ":return"), sep)
    /\ Continued(v.raises, sl, hi, Declarations(sl, lo, hi, ":raise"), sep)

\* the result has no tag
NoTags(v) == v.params = << >> /\ v.returns = None /\ v.raises = << >>

\* TagsContinued, given the first line of the region
TagsContinuedFrom(v, sl, lo, sep) ==
    IF lo = 0 THEN NoTags(v)
    ELSE RegionContinued(v, sl, lo, RegionStop(sl, lo), sep)

\* the tags of the result are the declarations of the tag region of the
\* lines, each with its continuation lines; without region there is no tag
TagsContinued(v, ls, sep) ==
    TagsContinuedFrom(v, StripAll(ls), RegionStart(ls), sep)

\* C19 as stated: in the tag region, which the first blank line ends, every
\* line that is neither blank nor starts a tag belongs to the tag declared
\* last, and each is appended to its description, stripped, without a
\* separator
C19_Original ==
    (Parsed /\ ret.out.ok) =>
        TagsContinued(ret.out.value, Split(ret.ds, linesep), "")

\* C19: in the tag region, which the first blank line ends, every line
\* that is neither blank nor starts a tag belongs to the tag declared
\* last; the continuation lines of a tag, each stripped of the whitespace
\* around it, are joined with single spaces, and the joined text is
\* appended to the description of the tag without a separator
C19_Continuation ==
    (Parsed /\ ret.out.ok) =>
        TagsContinued(ret.out.value, Split(ret.ds, linesep), " ")

\* C19 witness: an indented declaration with two continuation lines has
\* been parsed into an error tag, and the declaration after the blank line
\* has not become a tag
C19_Witness ==
    /\ Parsed
    /\ ret.out.ok
    /\ ret.ds = ":param int x: c\n    :raises E: bad\n    more\n      on\n\n:return int: a"
    /\ Len(ret.out.value.params) = 1
    /\ Len(ret.out.value.raises) = 1
    /\ ret.out.value.raises[1].description = " badmore on"
    /\ ret.out.value.returns = None

\* the region lo..(hi - 1) has a line that starts a tag with none of the
\* keywords
Unrecognized(sl, lo, hi) ==
    \E i \in lo..(hi - 1) :
        /\ StartsTag(sl[i])
        /\ ~StartsWith(sl[i], ":param")
        /\ ~StartsWith(sl[i], ":return")
        /\ ~StartsWith(sl[i], ":raise")

\* every tag of the sequence is of the kind
AllOfKind(tags, kind) == \A k \in 1..Len(tags) : tags[k].kind = kind

\* the tags of the result are of the kinds the prefixes of the declaration
\* lines of the region select, one tag for each declaration
Dispatched(v, sl, lo, hi) ==
    /\ AllOfKind(v.params, "ParTag")
    /\ AllOfKind(v.returns, "RetTag")
    /\ AllOfKind(v.raises, "ErrTag")
    /\ Len(v.params) = Len(Declarations(sl, lo, hi, ":param"))
    /\ Len(v.returns) = Len(Declarations(sl, lo, hi, ":return"))
    /\ Len(v.raises) = Len(Declarations(sl, lo, hi, ":raise"))

\* the dispatch of the outcome of a parse of the lines, given the region
DispatchIn(out, sl, lo, hi) ==
    /\ out.ok => Dispatched(out.value, sl, lo, hi)
    /\ Unrecognized(sl, lo, hi) => (~out.ok /\ out.error = LucidocError)

\* DispatchOf, given the first line of the region
DispatchFrom(out, sl, lo) ==
    IF lo = 0 THEN out.ok => NoTags(out.value)
    ELSE DispatchIn(out, sl, lo, RegionStop(sl, lo))

\* the dispatch of the outcome of a parse of the lines
DispatchOf(out, ls) == DispatchFrom(out, StripAll(ls), RegionStart(ls))

\* C20: the kind of every decoded tag is the one the prefix of its
\* declaration line selects (:param a parameter tag, :return or :returns a
\* return tag, :raise or :raises an error tag), and a line of the tag region
\* that starts a tag with none of these prefixes makes the parse raise
\* LucidocError
C20_Dispatch == Parsed => DispatchOf(ret.out, Split(ret.ds, linesep))

(***************************************************************************)
(* Declaration lines: a fresh parser given a docstring that is one         *)
(* declaration, of a parameter, a return value or an error                 *)
(***************************************************************************)

\* the typenames of the declarations: none, one word, a union, a function
DeclTypenames == { "", "int", "str | Iterable[str]", "function(int, int) -> float" }

\* the parameter names of the declarations
DeclNames == { "x", "flag" }

\* the text that separates keyword, typename and name
Separators == { " ", "\t", "  " }

\* the text after the colon that closes the segment of keyword, typename
\* and name: a description, nothing, or text with further colons
DeclRests == { " d", "", " see: more", " at 1:2: c" }

\* the lines after the declaration: none, or a continuation line
DeclConts == { "", "\n    more" }

\* the keywords of return and error declarations
TypedKeywords == { ":return", ":returns", ":raise", ":raises" }

\* :param [typename] name: rest
ParamLine(tn, n, sep, rest) ==
    ":param" \o (IF tn = "" THEN "" ELSE sep \o tn) \o sep \o n \o ":" \o rest

\* :keyword [typename]: rest
TypedLine(kw, tn, sep, rest) ==
    kw \o (IF tn = "" THEN "" ELSE sep \o tn) \o ":" \o rest

\* the docstrings of one declaration
DeclDocs ==
    { ParamLine(tn, n, sep, rest) \o c :
        tn \in DeclTypenames, n \in DeclNames, sep \in Separators,
        rest \in DeclRests, c \in DeclConts }
    \cup { TypedLine(kw, tn, sep, rest) \o c :
             kw \in TypedKeywords, tn \in DeclTypenames, sep \in Separators,
             rest \in DeclRests, c \in DeclConts }

DeclInputs == { [kind |-> "text", text |-> t] : t \in DeclDocs }

\* a fresh parser given one declaration
InitDecl == input \in DeclInputs /\ InitParser

SpecDecl == InitDecl /\ [][NextParse]_vars

\* the declaration line of a docstring that begins with it
DeclarationOf(ds) == Split(ds, linesep)[1]

\* the segment of a declaration line between its first two colons
Segment(line) == Split(line, ":")[2]

\* the one tag of a result
TheTag(v) ==
    IF v.params # << >> THEN v.params[1]
    ELSE IF v.returns # None THEN v.returns[1]
    ELSE v.raises[1]

\* the least and the greatest element of a non-empty set of numbers
MinOf(S) == CHOOSE x \in S : \A y \in S : x <= y

MaxOf(S) == CHOOSE x \in S : \A y \in S : y <= x

\* the positions of the whitespace characters of s
Blanks(s) == { i \in 1..Len(s) : SubSeq(s, i, i) \in Whitespace }

\* the last whitespace-separated token of s
LastToken(s) ==
    IF Blanks(s) = {} THEN s ELSE SubSeq(s, MaxOf(Blanks(s)) + 1, Len(s))

\* the text of s after its first whitespace-separated token
AfterFirstToken(s) ==
    IF Blanks(s) = {} THEN "" ELSE SubSeq(s, MinOf(Blanks(s)), Len(s))

\* the text of s between its first and its last whitespace-separated token
BetweenTokens(s) ==
    IF Cardinality(Blanks(s)) < 2 THEN ""
    ELSE SubSeq(s, MinOf(Blanks(s)), MaxOf(Blanks(s)))

\* the tag has the name and the typename that the whitespace-separated
\* tokens of the segment give (the typename up to the whitespace around it)
TokensDecomposed(tag, seg) ==
    IF tag.kind = "ParTag"
    THEN /\ tag.name = LastToken(seg)
         /\ Strip(tag.typename) = Strip(BetweenTokens(seg))
    ELSE Strip(tag.typename) = Strip(AfterFirstToken(seg))

\* the text of s after its last space (s without a space)
AfterLastSpace(s) ==
    IF SepPositions(s, " ") = {} THEN s
    ELSE SubSeq(s, MaxOf(SepPositions(s, " ")) + 1, Len(s))

\* the text of s after its first space (nothing without a space)
AfterFirstSpace(s) ==
    IF SepPositions(s, " ") = {} THEN ""
    ELSE SubSeq(s, MinOf(SepPositions(s, " ")) + 1, Len(s))

\* the text of s between its first and its last space (nothing with fewer
\* than two spaces)
BetweenSpaces(s) ==
    IF Cardinality(SepPositions(s, " ")) < 2 THEN ""
    ELSE SubSeq(s, MinOf(SepPositions(s, " ")) + 1,
                MaxOf(SepPositions(s, " ")) - 1)

\* the tag has the name and the typename that the space characters of the
\* segment give
SpacesDecomposed(tag, seg) ==
    IF tag.kind = "ParTag"
    THEN /\ tag.name = AfterLastSpace(seg)
         /\ tag.typename = BetweenSpaces(seg)
    ELSE tag.typename = AfterFirstSpace(seg)

\* C21 as stated: the name of a parameter tag is the last
\* whitespace-separated token of the segment between the first two colons
\* of its declaration line and its typename is what stands between the
\* keyword and the name; the typename of a return or error tag is what
\* follows the keyword in that segment
C21_Original ==
    (Parsed /\ ret.out.ok) =>
        TokensDecomposed(TheTag(ret.out.value),
                         Segment(DeclarationOf(ret.ds)))

\* C21: the name of a parameter tag is the text after the last space
\* character of the segment between the first two colons of its declaration
\* line and its typename is the text between the first and the last space
\* character of the segment (empty when the segment has one space); the
\* typename of a return or error tag is the text after the first space
\* character of the segment (empty when it has none)
C21_Decomposition ==
    (Parsed /\ ret.out.ok) =>
        SpacesDecomposed(TheTag(ret.out.value),
                         Segment(DeclarationOf(ret.ds)))

\* C21 witness: a parameter declaration whose typename is a union written
\* with spaces has been parsed
C21_Witness ==
    /\ Parsed
    /\ ret.out.ok
    /\ Len(ret.out.value.params) = 1
    /\ ret.out.value.params[1].name = "flag"
    /\ ret.out.value.params[1].typename = "str | Iterable[str]"

(***************************************************************************)
(* Example sections: a fresh parser given a docstring whose lines after    *)
(* the description are an examples section                                 *)
(***************************************************************************)

\* the number of lines of an examples section after its first marker
MaxSectionLines == 4

\* the lines examples sections are assembled from: the marker, directives
\* with and without a language name, a blank line, code and prose
SectionPool ==
    { ":Example:",
      ".. code-block:: python",
      ".. code-block:: console",
      ".. code-block::",
      "",
      "    x = 1",
      "Prose." }

\* every sequence of at most n lines of the section pool
SectionSeqs(n) == UNION { [1..m -> SectionPool] : m \in 0..n }

\* a headline, a blank line, the marker and the lines of the section
SectionDoc(ls) ==
    Join(<< "Head.", "", RST_EXAMPLE_TAG >> \o ls, linesep)

SectionInputs ==
    { [kind |-> "text", text |-> SectionDoc(ls)] :
        ls \in SectionSeqs(MaxSectionLines) }

\* a fresh parser given one docstring with an examples section
InitExamples == input \in SectionInputs /\ InitParser

SpecExamples == InitExamples /\ [][NextParse]_vars

\* the lines of a docstring from its first line that begins with a colon
SectionOf(ls) == SubSeq(ls, DetailStop(ls, HeadStop(ls)), Len(ls))

\* the line is the marker of an example or a directive
IsMarker(l) == StartsWith(l, RST_EXAMPLE_TAG)

IsDirective(l) == StartsWith(l, tag_code_block)

Opens(l) == IsMarker(l) \/ IsDirective(l)

\* the indexes, in order, of the marker and directive lines of the section
Openers(sl) ==
    SelectSeq([i \in 1..Len(sl) |-> i], LAMBDA i : Opens(sl[i]))

\* the index of the first marker or directive after line i, one past the
\* last line when there is none
NextOpener(sl, i) ==
    IF \E j \in (i + 1)..Len(sl) : Opens(sl[j])
    THEN MinOf({ j \in (i + 1)..Len(sl) : Opens(sl[j]) })
    ELSE Len(sl) + 1

\* the opener at line i is followed, before the next opener, by a line that
\* is not blank: it opens a block
HasContent(sl, i) ==
    \E j \in (i + 1)..(NextOpener(sl, i) - 1) : Strip(sl[j]) # ""

\* the indexes, in order, of the openers that open a block
BlockOpeners(sl) ==
    SelectSeq(Openers(sl), LAMBDA i : HasContent(sl, i))

\* the language name a directive line declares: the text after the
\* directive, stripped (none for a marker line)
LanguageOf(l) ==
    IF IsDirective(l)
    THEN Strip(SubSeq(l, Len(tag_code_block) + 1, Len(l)))
    ELSE ""

\* the fence that opens the block of the opener line l
FenceOf(l) ==
    bookend \o (IF LanguageOf(l) = "" THEN "console" ELSE LanguageOf(l))

\* block k opens with the fence of the k-th opener that has content
FencesOpen(blocks, sl, openers) ==
    /\ Len(blocks) = Len(openers)
    /\ \A k \in 1..Len(blocks) :
          StartsWith(blocks[k], FenceOf(sl[openers[k]]) \o "\n")

\* C22: the fenced block built from the content under a directive line
\* '.. code-block:: L' opens with the fence annotated with exactly the
\* language name L, and the block of an example without directive, or with
\* an empty language name, opens with the fence annotated console
C22_FenceLanguage ==
    (Parsed /\ ret.out.ok /\ ret.out.value.examples # None) =>
        FencesOpen(ret.out.value.examples[1],
                   SectionOf(Split(ret.ds, linesep)),
                   BlockOpeners(SectionOf(Split(ret.ds, linesep))))

\* the indexes, in order, of the marker lines of the section
Markers(sl) ==
    SelectSeq([i \in 1..Len(sl) |-> i], LAMBDA i : IsMarker(sl[i]))

\* the index of the first marker after line i, one past the last line when
\* there is none
NextMarker(sl, i) ==
    IF \E j \in (i + 1)..Len(sl) : IsMarker(sl[j])
    THEN MinOf({ j \in (i + 1)..Len(sl) : IsMarker(sl[j]) })
    ELSE Len(sl) + 1

\* the example that the marker at line i begins has content: a line before
\* the next marker that is neither blank nor a directive
ExampleHasContent(sl, i) ==
    \E j \in (i + 1)..(NextMarker(sl, i) - 1) :
        Strip(sl[j]) # "" /\ ~IsDirective(sl[j])

\* the indexes, in order, of the markers of the examples with content
Nonempty(sl) ==
    SelectSeq(Markers(sl), LAMBDA i : ExampleHasContent(sl, i))

\* the lines of the example of the marker at line i that are neither blank
\* nor directives
ContentOf(sl, i) ==
    { sl[j] : j \in { j \in (i + 1)..(NextMarker(sl, i) - 1) :
                        Strip(sl[j]) # "" /\ ~IsDirective(sl[j]) } }

\* block k holds the content of the k-th example with content, and no
\* marker line
Discrete(blocks, sl, markers) ==
    /\ Len(blocks) = Len(markers)
    /\ \A k \in 1..Len(blocks) :
          /\ \A l \in ContentOf(sl, markers[k]) : Contains(blocks[k], l)
          /\ ~Contains(blocks[k], RST_EXAMPLE_TAG)

\* C23: each example with content (the lines between its marker and the
\* next marker or the end of the text) becomes one fenced block: no block
\* holds the content of two examples and the content of one example is not
\* split across two blocks
C23_Discrete ==
    (Parsed /\ ret.out.ok /\ ret.out.value.examples # None) =>
        Discrete(ret.out.value.examples[1],
                 SectionOf(Split(ret.ds, linesep)),
                 Nonempty(SectionOf(Split(ret.ds, linesep))))

\* every chunk has a line, and its first line starts a tag
ChunksStart(blocks) ==
    \A i \in 1..Len(blocks) :
        Len(blocks[i]) >= 1 /\ _is_tag_start(blocks[i][1])

\* the outcome is not one of the two guarded errors: the empty chunk of
\* _get_tag and the unrecognised tag type of the classification
Unguarded(out) ==
    out.ok \/ (out.msg # "Empty tag chunk" /\ out.error # TypeError)

\* every tag of the result is of the variant of its field
Variants(v) ==
    /\ AllOfKind(v.params, "ParTag")
    /\ AllOfKind(v.returns, "RetTag")
    /\ AllOfKind(v.raises, "ErrTag")

\* C24: every chunk that the parse hands to the decoding of tags has at
\* least one line and begins with a line that starts a tag, no parse raises
\* the error of the empty chunk or the error of the unrecognised tag type,
\* and every tag of a result is a parameter, return or error tag
C24_NoEmptyChunk ==
    Parsed =>
        /\ ChunksStart(RegionBlocks(ret.ds))
        /\ Unguarded(ret.out)
        /\ ret.out.ok => Variants(ret.out.value)

\* C24 witness: a parse has handed two chunks to the decoding, the second
\* closed by the end of the text, and both became tags
C24_Witness ==
    /\ Parsed
    /\ ret.out.ok
    /\ Len(RegionBlocks(ret.ds)) = 2
    /\ Len(RegionBlocks(ret.ds)[2]) = 2
    /\ Len(ret.out.value.params) + Len(ret.out.value.raises) = 2

\* C25: the slot changes only in a call that missed it and parsed
\* successfully: a call served from the slot and a call whose parse raises
\* leave the slot as it was; after a call that raised the slot does not
\* answer for the failing text, so that the next call with the text the slot
\* holds is served from the slot and the next call with the failing text
\* raises the same exception again
C25_SlotFrame ==
    /\ []((Called /\ ~ret.out.ok) =>
             /\ ~SlotHas(last_seen, ret.ds)
             /\ _parse(ret.ds) = ret.out)
    /\ [][ /\ last_seen' # last_seen => (~ret'.hit /\ ret'.out.ok)
           /\ (ret'.hit \/ ~ret'.out.ok) => last_seen' = last_seen
           /\ (Called /\ ~ret.out.ok /\ SlotHas(last_seen, ret'.ds)) =>
                 (ret'.hit /\ ret'.out.ok /\ last_seen' = last_seen)
           /\ (Called /\ ~ret.out.ok /\ ret'.ds = ret.ds) =>
                 (~ret'.hit /\ ret'.out = ret.out /\ last_seen' = last_seen)
         ]_vars

\* C25 witness: a parse has raised the error of the multiple return tags
\* while the slot held the result of another text, and the slot holds it
\* still
C25_Witness ==
    /\ Called
    /\ IsMultipleReturns(ret.out)
    /\ last_seen # None
    /\ last_seen[1].doc = TwoTagDoc

\* the outcome of the call with the text ds and the field name on a parser
\* that has not been called, given the outcome r of the parse of ds
FreshOutcome(r, name) == IF r.ok THEN Return(project(r.value, name)) ELSE r

\* C26: whatever calls the parser has served before, whether they raised,
\* and whether the call is served from the slot, the outcome of a call (the
\* value returned or the exception raised) is the outcome of the same call
\* on a parser that has not been called: it depends on the text and the
\* field asked for alone
C26_HistoryIndependent ==
    Called => ret.out = FreshOutcome(_parse(ret.ds), ret.name)

\* C26 witness: after other calls, a fetch of the error tags has been served
\* from the slot and returned two tags
C26_Witness ==
    /\ ret.op = "raises"
    /\ ret.hit
    /\ Len(ret.out.value) = 2

\* the run has not returned from doc_module, or an exception has left it
Unwritten(r) == r.pc \in { "start", "checked", "imported", "raised" }

\* doc_res holds the documentation of every group of the call
EveryGroupDocumented(r) ==
    r.groups # None =>
        \A i \in 1..Len(r.groups[1]) :
            \E j \in 1..Len(r.doc_res[1]) :
                r.doc_res[1][j].group = r.groups[1][i].group

\* C27: run_lucidoc writes and prints only after doc_module has returned
\* the documentation of all selected targets (of every group, with
\* groups): a run that an exception has left, in particular one raised by
\* the parsing or rendering of a docstring, has written no file and printed
\* nothing; and a step that writes or prints finds the documentation
\* complete and parses nothing more
C27_WriteAfterSuccess ==
    /\ [](Unwritten(ret) => (ret.files = << >> /\ ret.printed = None))
    /\ [][ (ret'.files # ret.files \/ ret'.printed # ret.printed) =>
              /\ ret.pc = "documented"
              /\ ret.doc_res # None
              /\ EveryGroupDocumented(ret)
              /\ ret'.doc_res = ret.doc_res
              /\ last_seen' = last_seen
              /\ ret'.out = None
         ]_vars

\* C27 witness: with two groups, the docstrings of the first group were
\* parsed and rendered, the docstring of the second group failed to parse,
\* and the run was left by the error of the parser
C27_Witness ==
    /\ input \in GroupCalls
    /\ ret.pc = "raised"
    /\ ret.out[1].error = LucidocError
    /\ last_seen # None
    /\ last_seen[1].doc # BadDoc

(***************************************************************************)
(* Lines after the tag region: a fresh parser given a docstring with a tag *)
(* region, the blank line that ends it, and lines after the blank line     *)
(***************************************************************************)

\* the number of lines after the blank line that ends the tag region
MaxTailLines == 3

\* the lines before the tag region: none, or a headline and a blank line
RegionPrefixes == { << >>, << "Head.", "" >> }

\* the tag regions: a parameter, a return tag, a parameter with a
\* continuation line, an unrecognised keyword, and two return tags
Regions ==
    { << ":param int x: c" >>,
      << ":return int: a" >>,
      << ":param int x: c", "    more" >>,
      << ":else y: z" >>,
      << ":return int: a", ":returns str: b" >> }

\* the line that ends the region: empty, or of spaces
RegionEnds == { "", "  " }

\* the lines after the blank line: the marker of an example section, a
\* return tag, a declaration with an unrecognised keyword, code, a blank
TailPool ==
    { RST_EXAMPLE_TAG, ":return int: b", ":else y: z", "    x = 1", "" }

\* every sequence of at most n lines of the tail pool
TailSeqs(n) == UNION { [1..m -> TailPool] : m \in 0..n }

RegionDoc(prefix, region, end, tail) ==
    Join(prefix \o region \o << end >> \o tail, linesep)

RegionInputs ==
    { [kind |-> "text", text |-> RegionDoc(prefix, region, end, tail)] :
        prefix \in RegionPrefixes, region \in Regions, end \in RegionEnds,
        tail \in TailSeqs(MaxTailLines) }

\* a fresh parser given one docstring with lines after its tag region
InitRegion == input \in RegionInputs /\ InitParser

SpecRegion == InitRegion /\ [][NextParse]_vars

\* the lines of the blocks of the examples ex
BlockLines(ex) ==
    IF ex = None THEN { }
    ELSE UNION { { Split(ex[1][b], "\n")[k] :
                     k \in 1..Len(Split(ex[1][b], "\n")) } :
                 b \in 1..Len(ex[1]) }

\* the outcome out of the parse agrees with the outcome cut of the parse of
\* the lines before the blank line: the same error, or the same
\* description and tags
SameDecoded(out, cut) ==
    /\ out.ok = cut.ok
    /\ ~out.ok => out = cut
    /\ out.ok =>
          /\ out.value.desc = cut.value.desc
          /\ out.value.params = cut.value.params
          /\ out.value.returns = cut.value.returns
          /\ out.value.raises = cut.value.raises

\* the lines ls after the blank line at index stop that start a tag are
\* dropped, or kept as lines of the example blocks when the line after the
\* blank line begins with the marker
TailKept(v, ls, stop) ==
    IF stop < Len(ls) /\ StartsWith(ls[stop + 1], RST_EXAMPLE_TAG)
    THEN /\ v.examples # None
         /\ \A j \in (stop + 2)..Len(ls) :
               StartsTag(ls[j]) => ls[j] \in BlockLines(v.examples)
    ELSE v.examples = None

\* the docstring with the lines ls, whose tag region starts at the line
\* start and is ended by the blank line at index stop, has the outcome out
TailNotDecoded(out, ls, start, stop) ==
    (start > 0 /\ stop <= Len(ls)) =>
        /\ SameDecoded(out, _parse(Join(SubSeq(ls, 1, stop - 1), linesep)))
        /\ out.ok => TailKept(out.value, ls, stop)

\* C28: the lines after the blank line that ends the tag region are not
\* decoded: the parse raises exactly when the parse of the lines before the
\* blank line raises, with the same error, and otherwise has the same
\* description and tags; a line after the blank line that starts a tag (a
\* second return tag, an unrecognised keyword) is dropped, or is a line of
\* an example block when the line after the blank line begins with the
\* marker :Example:
C28_TailNotDecoded ==
    Parsed =>
        TailNotDecoded(ret.out, Split(ret.ds, linesep),
                       RegionStart(Split(ret.ds, linesep)),
                       RegionStop(StripAll(Split(ret.ds, linesep)),
                                  RegionStart(Split(ret.ds, linesep))))

\* C28 witness: a docstring with a return tag in the region and, after the
\* blank line, the marker, a second return tag and a declaration with an
\* unrecognised keyword has been parsed: one return tag, and both lines in
\* the example block
C28_Witness ==
    /\ Parsed
    /\ ret.out.ok
    /\ ret.out.value.returns # None
    /\ ret.out.value.returns[1].typename = "int"
    /\ { ":return int: b", ":else y: z" } \subseteq BlockLines(ret.out.value.examples)

\* the text between the second and the last colon of a declaration line
\* with the colon chunks given
Middle(colon_chunks) ==
    Join(SubSeq(colon_chunks, 3, Len(colon_chunks) - 1), ":")

\* the docstring with the lines ls whose declaration line, with the colon
\* chunks given, has lost the text between its second and its last colon
WithoutMiddle(ls, colon_chunks) ==
    Join(<< Join(<< colon_chunks[1], colon_chunks[2],
                    colon_chunks[Len(colon_chunks)] >>, ":") >> \o Tail(ls),
         linesep)

\* the name (of a parameter), the typename and the description of a tag
Fields(tag) ==
    IF tag.kind = "ParTag"
    THEN { tag.name, tag.typename, tag.description }
    ELSE { tag.typename, tag.description }

\* the tag decoded from the declaration line with the colon chunks given,
\* the first line of ls: the description begins with the last chunk, name
\* and typename come from the second chunk, and the chunks between them are
\* in no field and without influence on the tag
ColonsDecoded(tag, ls, colon_chunks) ==
    /\ StartsWith(tag.description, colon_chunks[Len(colon_chunks)])
    /\ SpacesDecomposed(tag, colon_chunks[2])
    /\ Len(colon_chunks) > 3 =>
          /\ \A f \in Fields(tag) : ~Contains(f, Middle(colon_chunks))
          /\ _parse(WithoutMiddle(ls, colon_chunks)).ok
          /\ TheTag(_parse(WithoutMiddle(ls, colon_chunks)).value) = tag

\* C29: the description of a decoded tag begins with exactly the text after
\* the last colon of its declaration line, its name and typename are taken
\* from the segment between the first and the second colon, and when the
\* line has more than two colons the text between the second and the last
\* colon is in none of name, typename and description: the tag is that of
\* the line without this text
C29_Colons ==
    (Parsed /\ ret.out.ok) =>
        ColonsDecoded(TheTag(ret.out.value), Split(ret.ds, linesep),
                      Split(DeclarationOf(ret.ds), ":"))

\* C29 witness: a parameter declaration with four colons and a continuation
\* line has been parsed; the description is the text after the fourth colon
\* and the continuation
C29_Witness ==
    /\ Parsed
    /\ ret.out.ok
    /\ Len(Split(DeclarationOf(ret.ds), ":")) = 5
    /\ Len(ret.out.value.params) = 1
    /\ ret.out.value.params[1].typename = "int"
    /\ ret.out.value.params[1].description = " cmore"

(***************************************************************************)
(* _create_code_blocks as a process: one step per call of the recursion.   *)
(* ret holds the arguments of the call being entered (lines, code_type,    *)
(* curr, acc) and, after the return, the blocks returned                   *)
(***************************************************************************)

\* the call _create_code_blocks(lines, code_type, curr, acc) being entered
Entered(lines, code_type, curr, acc) ==
    [op |-> "_create_code_blocks", pc |-> "entered", lines |-> lines,
     code_type |-> code_type, curr |-> curr, acc |-> acc, out |-> None]

\* the number of lines after the first marker of a section that is stepped
\* through
MaxBlockLines == 3

\* the examples sections handed to _create_code_blocks by
\* _parse_example_lines: the marker and the lines after it
BlockInputs ==
    { [kind |-> "lines", lines |-> << RST_EXAMPLE_TAG >> \o ls] :
        ls \in SectionSeqs(MaxBlockLines) }

\* line 271: the first call
InitBlocks ==
    /\ input \in BlockInputs
    /\ last_seen = None
    /\ ret = Entered(input.lines, None, << >>, << >>)

\* mutant of emitted: the block being collected is emitted when empty, too
emitted_always(r) == add_curr(r.acc, r.code_type, r.curr)

\* lines 295-296: the blocks returned when the lines have run out
emitted(r) ==
    IF Len(r.curr) > 0 THEN add_curr(r.acc, r.code_type, r.curr) ELSE r.acc

\* lines 295-296: no line is left, the recursion returns
emit ==
    /\ ret.pc = "entered"
    /\ Len(ret.lines) = 0
    /\ ret' = [ret EXCEPT !.pc = "returned", !.out = Some(emitted(ret))]
    /\ UNCHANGED << input, last_seen >>

\* lines 303-308 and 311: a marker or directive line closes the block being
\* collected, the blank lines after it are dropped, and the next call is
\* entered
close_block ==
    /\ ret.pc = "entered"
    /\ Len(ret.lines) > 0
    /\ \/ StartsWith(ret.lines[1], RST_EXAMPLE_TAG)
       \/ StartsWith(ret.lines[1], tag_code_block)
    /\ ret' = Entered(burn_blanks(Tail(ret.lines)), code_type_of(ret.lines[1]),
                      << >>, emitted(ret))
    /\ UNCHANGED << input, last_seen >>

\* lines 309-311: any other line joins the block being collected and the
\* next call is entered
collect ==
    /\ ret.pc = "entered"
    /\ Len(ret.lines) > 0
    /\ ~StartsWith(ret.lines[1], RST_EXAMPLE_TAG)
    /\ ~StartsWith(ret.lines[1], tag_code_block)
    /\ ret' = Entered(Tail(ret.lines), ret.code_type,
                      Append(ret.curr, ret.lines[1]), ret.acc)
    /\ UNCHANGED << input, last_seen >>

NextBlocks ==
    \/ emit
    \/ close_block
    \/ collect

SpecBlocks == InitBlocks /\ [][NextBlocks]_vars

\* a call that is entered runs to its recursive call or to its return
\* without waiting for anything
SpecBlocksLive == SpecBlocks /\ WF_vars(NextBlocks)

\* C30: the construction of the example blocks terminates: each recursive
\* call is entered with strictly fewer lines than the call before, the
\* recursion returns only when no line is left, then with the blocks closed
\* so far and the block being collected exactly when this has a line, what
\* it returns is what _create_code_blocks gives for the section, and every
\* call sequence reaches the return
C30_Terminates ==
    /\ [][ /\ ret'.pc = "entered" => Len(ret'.lines) < Len(ret.lines)
           /\ ret'.pc = "returned" =>
                 /\ Len(ret.lines) = 0
                 /\ Len(ret.curr) > 0 =>
                       /\ Len(ret'.out[1]) = Len(ret.acc) + 1
                       /\ SubSeq(ret'.out[1], 1, Len(ret.acc)) = ret.acc
                       /\ Tail(ret'.out[1][Len(ret.acc) + 1])
                            = ret.curr \o << bookend >>
                 /\ Len(ret.curr) = 0 => ret'.out[1] = ret.acc
         ]_vars
    /\ [](ret.pc = "returned" =>
             ret.out[1] = _create_code_blocks(input.lines, None, << >>, << >>))
    /\ <>(ret.pc = "returned")

\* C30 witness: the recursion has returned two blocks, the second one
\* emitted when the lines ran out
C30_Witness ==
    /\ ret.op = "_create_code_blocks"
    /\ ret.pc = "returned"
    /\ Len(ret.out[1]) = 2
    /\ input.lines[Len(input.lines)] = "    x = 1"

====
